---- MODULE Spec2Model ----
(***************************************************************************)
(* Privilege-boundary core of the kernel: the RISC-V trap dispatcher       *)
(* (_start_trap, arch/rv32i/src/lib.rs), the syscall router                *)
(* (ExternalCall::handle_external_syscall with Platform::with_driver) and  *)
(* the deferred call scheduler.                                            *)
(***************************************************************************)
EXTENDS Integers, Sequences, FiniteSets, TLC

\* ------------------------------------------------------------------------
\* Machine words (rv32: 32-bit registers, 32-bit usize). A word is kept as
\* its two 16-bit halves, h the upper and l the lower one, so that all 32
\* bits are there and every intermediate number stays small.
\* ------------------------------------------------------------------------
Half == 2^16

W(h, l) == [h |-> h, l |-> l]

Zero32 == W(0, 0)

\* w + k modulo 2^32, for an immediate -2^16 < k < 2^16
Add32(w, k) ==
    LET t == w.l + k IN
    IF t >= Half THEN W((w.h + 1) % Half, t - Half)
    ELSE IF t < 0 THEN W((w.h + Half - 1) % Half, t + Half)
    ELSE W(w.h, t)

\* unsigned a > b
GtU(a, b) == a.h > b.h \/ (a.h = b.h /\ a.l > b.l)

\* signed (two's complement) a >= b
GeS(a, b) ==
    LET sa == (a.h + 2^15) % Half
        sb == (b.h + 2^15) % Half
    IN  sa > sb \/ (sa = sb /\ a.l >= b.l)

\* the sign bit (bit 31)
Negative(w) == w.h >= 2^15

RECURSIVE OrBits(_, _, _)
OrBits(a, b, n) ==
    IF n = 0 THEN 0
    ELSE (IF a % 2 = 1 \/ b % 2 = 1 THEN 1 ELSE 0)
         + 2 * OrBits(a \div 2, b \div 2, n - 1)

\* `or rd, rs1, rs2` on 32-bit registers
Or32(a, b) == W(OrBits(a.h, b.h, 16), OrBits(a.l, b.l, 16))

\* the two-bit field of w starting at bit k, and bit k, for k < 15
Field2(w, k) == (w.l \div (2^k)) % 4

Bit(w, k) == (w.l \div (2^k)) % 2

\* ------------------------------------------------------------------------
\* Trap dispatcher state
\* ------------------------------------------------------------------------
VARIABLES
    mode,     \* "kernel" | "process" | "trap" (inside _start_trap) | "call"
    pc,       \* index into Program of the next dispatcher instruction
    regs,     \* x0..x31
    csr,      \* mscratch, mepc, mcause, mtval, mstatus
    mem,      \* word-addressed RAM, only the words ever written
    callee,   \* the Rust function the dispatcher has called (mode = "call")
    running,  \* the process last dispatched (0: none yet)
    resume,   \* where the last mret resumed execution
    entry,    \* ghost: registers and CSRs at the instant of the last trap
    trace,    \* ghost: the instructions executed since the last trap entry
    ntraps    \* number of traps taken

trapVars == <<mode, pc, regs, csr, mem, callee, running, resume, entry, trace, ntraps>>

\* ------------------------------------------------------------------------
\* Syscall router state (ExternalCall, kernel/src/external_call.rs)
\* ------------------------------------------------------------------------
VARIABLES
    JOB_PENDING,  \* static mut JOB_PENDING: a received request awaits service
    tx_buffer,    \* TakeCell: <<>> is None, else the 17-byte buffer held
    rx_buffer,    \* TakeCell: <<>> is None, else the 17-byte buffer held
    uart_tx,      \* buffer lent to the UART for a transmission (<<>>: none)
    uart_rx,      \* buffer lent to the UART for a reception (<<>>: none)
    panicked,     \* the kernel has panicked (unwrap of an Err)
    platform,     \* the Platform: field name -> the service object it refers to
    dispatched,   \* ghost: process identity and syscall of the last dispatch
    cres,         \* ghost: CommandReturn of the last dispatch
    invoked       \* ghost: command handlers invoked by the last dispatch

routerVars == <<JOB_PENDING, tx_buffer, rx_buffer, uart_tx, uart_rx, panicked,
                platform, dispatched, cres, invoked>>

\* ------------------------------------------------------------------------
\* Deferred call scheduler state
\* ------------------------------------------------------------------------
VARIABLES
    created,      \* number of call sites created so far
    handlers,     \* registration table: site index -> handler or NoHandler
    bitmask,      \* pending bits, one per site, a 32-bit word
    phase,        \* "boot" | "run" (verify_setup passed) | "halted" (fatal)
    lastService,  \* ghost: what the last service_next_pending did
    setsSince,    \* ghost: set() calls on a site since its last service
    runsSince     \* ghost: handler runs of a site since its last set()

deferredVars == <<created, handlers, bitmask, phase, lastService, setsSince,
                  runsSince>>

\* ------------------------------------------------------------------------
\* Entry points without state of their own: the trap vector registers that
\* configure_trap_handler writes, and the last call of such an entry point
\* ------------------------------------------------------------------------
VARIABLES
    tvec,         \* the CSRs mtvec, stvec and utvec
    call          \* ghost: the last entry point called, its inputs and result

entryVars == <<tvec, call>>

\* ------------------------------------------------------------------------
\* The registry of external drivers (capsules/core/src/external_driver.rs),
\* which the board does not construct
\* ------------------------------------------------------------------------
VARIABLES
    external_drivers,  \* the array of (number, driver) pairs
    count,             \* the count field
    adds,              \* ghost: add_driver calls that stored a driver
    regop              \* ghost: the last operation on the registry

registryVars == <<external_drivers, count, adds, regop>>

\* ------------------------------------------------------------------------
\* The first draft of the external-call servicer
\* (kernel/src/external_redirect.rs)
\* ------------------------------------------------------------------------
VARIABLES
    WAITING_SYS,       \* an external syscall is pending
    redirected         \* ghost: the last operation of the draft, its dispatch

redirectVars == <<WAITING_SYS, redirected>>

vars == <<trapVars, routerVars, deferredVars, entryVars, registryVars, redirectVars>>


\* ABI register names (x-register numbers)
X == [zero |-> 0, ra |-> 1, sp |-> 2, gp |-> 3, tp |-> 4, t0 |-> 5, t1 |-> 6,
      t2 |-> 7, s0 |-> 8, s1 |-> 9, a0 |-> 10, a1 |-> 11, a2 |-> 12,
      a3 |-> 13, a4 |-> 14, a5 |-> 15, a6 |-> 16, a7 |-> 17, t3 |-> 28,
      t4 |-> 29, t5 |-> 30, t6 |-> 31]

\* Registers the RISC-V calling convention lets a called function change
CallerSaved == {1} \cup (5..7) \cup (10..17) \cup (28..31)

\* Linker symbols: bottom and top of the kernel stack region
SStack == W(2^15, 256)
EStack == W(2^15, 1024)

\* ---- instructions of the dispatcher ---------------------------------
Csrrw(rd, c, rs)     == [op |-> "csrrw", rd |-> rd, csr |-> c, rs |-> rs, lbl |-> ""]
Csrw(c, rs)          == [op |-> "csrrw", rd |-> 0, csr |-> c, rs |-> rs, lbl |-> ""]
Csrr(rd, c)          == [op |-> "csrr", rd |-> rd, csr |-> c, lbl |-> ""]
Bnez(rs, t)          == [op |-> "bnez", rs |-> rs, target |-> t, lbl |-> ""]
Bgtu(rs1, rs2, t)    == [op |-> "bgtu", rs |-> rs1, rs2 |-> rs2, target |-> t, lbl |-> ""]
Bge(rs1, rs2, t)     == [op |-> "bge", rs |-> rs1, rs2 |-> rs2, target |-> t, lbl |-> ""]
La(rd, v)            == [op |-> "li", rd |-> rd, imm |-> v, lbl |-> ""]
Li(rd, v)            == [op |-> "li", rd |-> rd, imm |-> v, lbl |-> ""]
Addi(rd, rs, v)      == [op |-> "addi", rd |-> rd, rs |-> rs, imm |-> v, lbl |-> ""]
Mv(rd, rs)           == [op |-> "addi", rd |-> rd, rs |-> rs, imm |-> 0, lbl |-> ""]
Or(rd, rs1, rs2)     == [op |-> "or", rd |-> rd, rs |-> rs1, rs2 |-> rs2, lbl |-> ""]
Sw(rs, off, base)    == [op |-> "sw", rs |-> rs, off |-> off, base |-> base, lbl |-> ""]
Lw(rd, off, base)    == [op |-> "lw", rd |-> rd, off |-> off, base |-> base, lbl |-> ""]
Jal(fn)              == [op |-> "jal", rd |-> 1, fn |-> fn, lbl |-> ""]
Mret                 == [op |-> "mret", lbl |-> ""]
At(l, ins)           == [ins EXCEPT !.lbl = l]

\* `sw xN, (N-1)*4(s0)` for each N of ns, in order
RECURSIVE SaveRegs(_)
SaveRegs(ns) ==
    IF ns = <<>> THEN <<>>
    ELSE <<Sw(Head(ns), (Head(ns) - 1) * 4, X.s0)>> \o SaveRegs(Tail(ns))

\* `sw r, k*4(sp)` / `lw r, k*4(sp)` for the k-th register of rs, k from 0
RECURSIVE SpillRegs(_, _)
SpillRegs(rs, k) ==
    IF rs = <<>> THEN <<>>
    ELSE <<Sw(Head(rs), k * 4, X.sp)>> \o SpillRegs(Tail(rs), k + 1)

RECURSIVE FillRegs(_, _)
FillRegs(rs, k) ==
    IF rs = <<>> THEN <<>>
    ELSE <<Lw(Head(rs), k * 4, X.sp)>> \o FillRegs(Tail(rs), k + 1)

\* ---- _start_trap, block by block ---------------------------------------
KernelSaved == <<X.ra, X.t0, X.t1, X.t2, X.t3, X.t4, X.t5, X.t6,
                 X.a0, X.a1, X.a2, X.a3, X.a4, X.a5, X.a6, X.a7>>

\* mutant: the flag is read into sp without the exchange
TrapEntryCodeNoSwap ==
    << Csrr(X.sp, "mscratch"),
       Bnez(X.sp, "300") >>

\* csrrw sp, mscratch, sp ; bnez sp, 300f
TrapEntryCode ==
    << Csrrw(X.sp, "mscratch", X.sp),
       Bnez(X.sp, "300") >>

\* mutant: the stack bound is compared as a signed number
FromKernelCheckSigned ==
    << Csrrw(X.sp, "mscratch", X.sp),
       Csrw("mscratch", X.t0),
       La(X.t0, SStack),
       Bge(X.sp, X.t0, "100"),
       La(X.sp, EStack) >>

\* _from_kernel: swap back, park t0 in mscratch, compare sp with _sstack
FromKernelCheck ==
    << Csrrw(X.sp, "mscratch", X.sp),
       Csrw("mscratch", X.t0),
       La(X.t0, SStack),
       Bgtu(X.sp, X.t0, "100"),
       La(X.sp, EStack) >>

\* mutant: mscratch is cleared without reading t0 back out of it
FromKernelFrameNoRestore ==
    <<At("100", Csrw("mscratch", X.zero)),
      Addi(X.sp, X.sp, -64)>>

\* 100: restore t0 and zero mscratch, then make room on the stack
FromKernelFrame ==
    << At("100", Csrrw(X.t0, "mscratch", X.zero)),
       Addi(X.sp, X.sp, -64) >>

\* save caller-saved registers, call the handler, restore, mret
FromKernelHandle ==
    SpillRegs(KernelSaved, 0)
    \o << Jal("_start_trap_rust_from_kernel") >>
    \o FillRegs(KernelSaved, 0)
    \o << Addi(X.sp, X.sp, 64),
          Mret >>

\* 300: park s0 in word 0 of the kernel frame, load the stored state pointer
FromAppPointer ==
    << At("300", Sw(X.s0, 0, X.sp)),
       Lw(X.s0, 4, X.sp) >>

\* x1, x3..x7, x9..x31 into their slots
FromAppSaveRegs ==
    SaveRegs(<<1, 3, 4, 5, 6, 7, 9, 10, 11, 12, 13, 14, 15, 16, 17, 18, 19,
               20, 21, 22, 23, 24, 25, 26, 27, 28, 29, 30, 31>>)

\* mutant: s0 is stored as it is now (the record pointer), not as parked
FromAppSaveS0Direct ==
    << Sw(X.s0, 28, X.s0) >>

\* mutant: the original s0 lands on word 1 of the frame
FromAppSaveS0InFrame ==
    << Lw(X.t0, 0, X.sp),
       Sw(X.t0, 4, X.sp) >>

\* the original s0 from word 0 of the frame into slot 7
FromAppSaveS0 ==
    << Lw(X.t0, 0, X.sp),
       Sw(X.t0, 28, X.s0) >>

\* mutant: mepc and mtval go to each other's slot
FromAppSaveMetaSwapped ==
    << Csrr(X.t0, "mscratch"),
       Sw(X.t0, 4, X.s0),
       Csrr(X.t0, "mepc"),
       Sw(X.t0, 132, X.s0),
       Csrr(X.t0, "mtval"),
       Sw(X.t0, 124, X.s0) >>

\* the app sp (in mscratch), mepc, mtval
FromAppSaveMeta ==
    << Csrr(X.t0, "mscratch"),
       Sw(X.t0, 4, X.s0),
       Csrr(X.t0, "mepc"),
       Sw(X.t0, 124, X.s0),
       Csrr(X.t0, "mtval"),
       Sw(X.t0, 132, X.s0) >>

\* mcause last, left in t0
FromAppSaveCause ==
    << Csrr(X.t0, "mcause"),
       Sw(X.t0, 128, X.s0) >>

\* mutant: the cause is not copied into a0 before the call
FromAppDisableNoArg ==
    << Bge(X.t0, X.zero, "200"),
       Jal("_disable_interrupt_trap_rust_from_app") >>

\* interrupt test and the call of the disable function
FromAppDisable ==
    << Bge(X.t0, X.zero, "200"),
       Mv(X.a0, X.t0),
       Jal("_disable_interrupt_trap_rust_from_app") >>

\* mutant: mepc is loaded from word 1 of the frame
FromAppResumeWrongWord ==
    << At("200", Lw(X.t0, 4, X.sp)),
       Csrw("mepc", X.t0),
       Csrw("mscratch", X.zero) >>

\* mutant: the Scratch Flag is left as it is
FromAppResumeNoClear ==
    << At("200", Lw(X.t0, 8, X.sp)),
       Csrw("mepc", X.t0) >>

\* 200: mepc = _return_to_kernel (word 2 of the frame), mscratch = 0
FromAppResume ==
    << At("200", Lw(X.t0, 8, X.sp)),
       Csrw("mepc", X.t0),
       Csrw("mscratch", X.zero) >>

\* mutant: mstatus is overwritten with the MPP mask
FromAppReturnOverwrite ==
    << Csrr(X.t0, "mstatus"),
       Li(X.t1, W(0, 6144)),
       Mv(X.t0, X.t1),
       Csrw("mstatus", X.t0),
       Mret >>

\* mstatus.MPP = 0b11, mret
FromAppReturn ==
    << Csrr(X.t0, "mstatus"),
       Li(X.t1, W(0, 6144)),
       Or(X.t0, X.t0, X.t1),
       Csrw("mstatus", X.t0),
       Mret >>

Program ==
    TrapEntryCode \o FromKernelCheck \o FromKernelFrame \o FromKernelHandle
    \o FromAppPointer \o FromAppSaveRegs \o FromAppSaveS0 \o FromAppSaveMeta
    \o FromAppSaveCause \o FromAppDisable \o FromAppResume \o FromAppReturn

LabelPos(l) == CHOOSE i \in DOMAIN Program : Program[i].lbl = l

\* ---- memory and registers ---------------------------------------------
\* the word at address a, -1 when it was never written
Rd(m, a) == IF a \in DOMAIN m THEN m[a] ELSE W(-1, -1)

Store(m, a, v) == [x \in DOMAIN m \cup {a} |-> IF x = a THEN v ELSE m[x]]

SetReg(r, rd, v) == IF rd = 0 THEN r ELSE [r EXCEPT ![rd] = v]

\* the value a load can return: the word stored there, or any value when the
\* word was never written
LoadValues(m, a) == IF a \in DOMAIN m THEN {m[a]} ELSE {Zero32, W(Half - 1, Half - 1)}

\* ---- the world around the dispatcher ------------------------------------
Procs == {1, 2}

\* Stored Process State record of process p: 34 words
StoredStateAddr(p) == W(2^15, 4096 + 256 * p)

\* address of the context-switch resumption point, _return_to_kernel
ReturnToKernel == W(2^15 + 1, 512)

\* where the kernel frame can lie when a process is dispatched
KernelFrames == {Add32(EStack, -160)}

\* kernel stack pointers at a trap: far below the stack (wrapped under 2^31),
\* exactly at the bottom, one word above it, in the middle of the stack
KernelSps == {W(2^15 - 1, Half - 16), SStack, Add32(SStack, 4), Add32(EStack, -256)}

\* mcause: machine external interrupt, illegal instruction
KernelCauses == {W(2^15, 11), W(0, 2)}

\* mcause: environment call from U-mode, machine timer interrupt
AppCauses == {W(0, 8), W(2^15, 7)}

AppSps == {Zero32, W(2^13, 4096)}

AppPc(p) == W(2^13, 64 * p)

KernelPc == W(2^15 + 1, 64)

KernelRegs == [n \in 0..31 |-> IF n = 0 THEN Zero32 ELSE W(2^12, 16 * n)]

ProcRegs(p) == [n \in 0..31 |-> IF n = 0 THEN Zero32 ELSE W(2^13, 256 * p + n)]

Clobbered(n) == W(2^14, n)

\* mstatus as the hardware leaves it at trap entry: MIE = 0, MPIE = 1, and
\* MPP = the interrupted privilege (0 user, 1 supervisor, 3 machine); process
\* 1 runs in user mode, process 2 in supervisor mode; bit 13 is an unrelated
\* field (FS), which process 2 has set
AppTrapMstatus(p) == IF p = 1 THEN W(0, 2^7) ELSE W(0, 2^7 + 2^11 + 2^13)

KernelTrapMstatus == W(0, 2^7 + 3 * 2^11)

MaxTraps == 2

\* ---- ghost observations --------------------------------------------------
\* the Stored Process State record the kernel frame at f names
RecordOf(m, f) == Rd(m, Add32(f, 4))

\* every slot of the record the frame names holds the value of the trap
StateSavedAt(m, e) ==
    LET r == RecordOf(m, e.csr.mscratch) IN
    /\ \A n \in 1..31 : Rd(m, Add32(r, 4 * (n - 1))) = e.regs[n]
    /\ Rd(m, Add32(r, 124)) = e.csr.mepc
    /\ Rd(m, Add32(r, 128)) = e.csr.mcause
    /\ Rd(m, Add32(r, 132)) = e.csr.mtval

\* what is recorded of an instruction as it executes: its index, the address
\* it stores to (NoAddr: none), sp, a0 and mscratch before it, and whether
\* the process state was completely saved before it
NoAddr == W(-1, -1)

Event(addr) ==
    [pc |-> pc, addr |-> addr, sp |-> regs[X.sp], a0 |-> regs[X.a0],
     flag |-> csr.mscratch,
     saved |-> StateSavedAt(mem, entry)]

Ins == Program[pc]

InTrap(ops) == mode = "trap" /\ pc \in DOMAIN Program /\ Ins.op \in ops

\* ---- hardware: taking a trap ---------------------------------------------
\* A trap (interrupt or exception) while kernel code runs. The hardware sets
\* mepc, mcause, mtval and mstatus and jumps to _start_trap with MIE = 0.
KernelTrap ==
    /\ mode = "kernel"
    /\ ntraps < MaxTraps
    /\ \E s \in KernelSps, c \in KernelCauses :
        /\ regs' = [KernelRegs EXCEPT ![X.sp] = s]
        /\ csr' = [csr EXCEPT !.mepc = KernelPc, !.mcause = c, !.mtval = Zero32,
                              !.mstatus = KernelTrapMstatus]
    /\ entry' = [regs |-> regs', csr |-> csr', from |-> "kernel"]
    /\ mode' = "trap"
    /\ pc' = 1
    /\ trace' = <<>>
    /\ ntraps' = ntraps + 1
    /\ UNCHANGED <<mem, callee, running, resume,
                 routerVars, deferredVars, entryVars, registryVars, redirectVars>>

\* A trap (syscall, fault or interrupt) while the dispatched process runs,
\* with the registers the process holds at that instant.
ProcessTrap ==
    /\ mode = "process"
    /\ ntraps < MaxTraps
    /\ \E s \in AppSps, c \in AppCauses :
        /\ regs' = [ProcRegs(running) EXCEPT ![X.sp] = s]
        /\ csr' = [csr EXCEPT !.mepc = AppPc(running), !.mcause = c,
                              !.mtval = IF Negative(c) THEN Zero32 ELSE W(2^13, 12),
                              !.mstatus = AppTrapMstatus(running)]
    /\ entry' = [regs |-> regs', csr |-> csr', from |-> "process"]
    /\ mode' = "trap"
    /\ pc' = 1
    /\ trace' = <<>>
    /\ ntraps' = ntraps + 1
    /\ UNCHANGED <<mem, callee, running, resume,
                 routerVars, deferredVars, entryVars, registryVars, redirectVars>>

\* The kernel dispatches process p: the frame at the kernel stack pointer f
\* gets the Stored Process State pointer in word 1 and _return_to_kernel in
\* word 2, mscratch gets f, and the processor drops to the process.
SwitchToProcess ==
    /\ mode = "kernel"
    /\ ntraps < MaxTraps
    /\ \E p \in Procs, f \in KernelFrames :
        /\ mem' = Store(Store(mem, Add32(f, 4), StoredStateAddr(p)),
                      Add32(f, 8), ReturnToKernel)
        /\ csr' = [csr EXCEPT !.mscratch = f]
        /\ running' = p
    /\ mode' = "process"
    /\ trace' = <<>>
    /\ UNCHANGED <<pc, regs, callee, resume, entry, ntraps,
                 routerVars, deferredVars, entryVars, registryVars, redirectVars>>

\* ---- the dispatcher, one instruction per step ----------------------------
ExecCsr ==
    /\ InTrap({"csrrw", "csrr"})
    /\ regs' = SetReg(regs, Ins.rd, csr[Ins.csr])
    /\ csr' = IF Ins.op = "csrrw"
              THEN [csr EXCEPT ![Ins.csr] = regs[Ins.rs]]
              ELSE csr
    /\ pc' = pc + 1
    /\ trace' = Append(trace, Event(NoAddr))
    /\ UNCHANGED <<mode, mem, callee, running, resume, entry, ntraps,
                 routerVars, deferredVars, entryVars, registryVars, redirectVars>>

BranchTaken(i) ==
    CASE i.op = "bnez" -> regs[i.rs] # Zero32
      [] i.op = "bgtu" -> GtU(regs[i.rs], regs[i.rs2])
      [] i.op = "bge"  -> GeS(regs[i.rs], regs[i.rs2])

ExecBranch ==
    /\ InTrap({"bnez", "bgtu", "bge"})
    /\ pc' = IF BranchTaken(Ins) THEN LabelPos(Ins.target) ELSE pc + 1
    /\ trace' = Append(trace, Event(NoAddr))
    /\ UNCHANGED <<mode, regs, csr, mem, callee, running, resume, entry, ntraps,
                 routerVars, deferredVars, entryVars, registryVars, redirectVars>>

AluResult(i) ==
    CASE i.op = "li"   -> i.imm
      [] i.op = "addi" -> Add32(regs[i.rs], i.imm)
      [] i.op = "or"   -> Or32(regs[i.rs], regs[i.rs2])

ExecAlu ==
    /\ InTrap({"li", "addi", "or"})
    /\ regs' = SetReg(regs, Ins.rd, AluResult(Ins))
    /\ pc' = pc + 1
    /\ trace' = Append(trace, Event(NoAddr))
    /\ UNCHANGED <<mode, csr, mem, callee, running, resume, entry, ntraps,
                 routerVars, deferredVars, entryVars, registryVars, redirectVars>>

ExecStore ==
    /\ InTrap({"sw"})
    /\ LET a == Add32(regs[Ins.base], Ins.off) IN
        /\ mem' = Store(mem, a, regs[Ins.rs])
        /\ trace' = Append(trace, Event(a))
    /\ pc' = pc + 1
    /\ UNCHANGED <<mode, regs, csr, callee, running, resume, entry, ntraps,
                 routerVars, deferredVars, entryVars, registryVars, redirectVars>>

ExecLoad ==
    /\ InTrap({"lw"})
    /\ \E v \in LoadValues(mem, Add32(regs[Ins.base], Ins.off)) :
        regs' = SetReg(regs, Ins.rd, v)
    /\ pc' = pc + 1
    /\ trace' = Append(trace, Event(NoAddr))
    /\ UNCHANGED <<mode, csr, mem, callee, running, resume, entry, ntraps,
                 routerVars, deferredVars, entryVars, registryVars, redirectVars>>

\* address of the dispatcher instruction at index i
CodeAddr(i) == W(2^15 + 1, 1024 + 4 * i)

\* jal ra, fn: the Rust function fn starts to run on the current stack
ExecCall ==
    /\ InTrap({"jal"})
    /\ regs' = SetReg(regs, Ins.rd, CodeAddr(pc + 1))
    /\ callee' = Ins.fn
    /\ mode' = "call"
    /\ pc' = pc + 1
    /\ trace' = Append(trace, Event(NoAddr))
    /\ UNCHANGED <<csr, mem, running, resume, entry, ntraps,
                 routerVars, deferredVars, entryVars, registryVars, redirectVars>>

\* The called function returns. It keeps sp and the callee-saved registers;
\* every caller-saved register comes back changed and the word below sp has
\* been used as the function's own stack.
CallReturn ==
    /\ mode = "call"
    /\ regs' = [n \in 0..31 |-> IF n \in CallerSaved THEN Clobbered(n) ELSE regs[n]]
    /\ mem' = Store(mem, Add32(regs[X.sp], -4), Clobbered(0))
    /\ mode' = "trap"
    /\ callee' = ""
    /\ UNCHANGED <<pc, csr, running, resume, entry, trace, ntraps,
                 routerVars, deferredVars, entryVars, registryVars, redirectVars>>

\* mret: resume at mepc in the privilege mstatus.MPP names; MIE = MPIE,
\* MPIE = 1, MPP = 0
MretStatus(ms) ==
    W(ms.h, ms.l - 8 * Bit(ms, 3) + 8 * Bit(ms, 7) - 128 * Bit(ms, 7) + 128
                 - 2048 * Field2(ms, 11))

ExecMret ==
    /\ InTrap({"mret"})
    /\ mode' = IF Field2(csr.mstatus, 11) = 3 THEN "kernel" ELSE "process"
    /\ resume' = csr.mepc
    /\ csr' = [csr EXCEPT !.mstatus = MretStatus(csr.mstatus)]
    /\ pc' = 0
    /\ trace' = Append(trace, Event(NoAddr))
    /\ UNCHANGED <<regs, mem, callee, running, entry, ntraps,
                 routerVars, deferredVars, entryVars, registryVars, redirectVars>>

\* ---- specification of the trap dispatcher --------------------------------
\* After _start: sp = s0 = _estack, mscratch = 0, main is about to run.
\* The process loader has allocated (zeroed) one record per process.
TrapInit ==
    /\ mode = "kernel"
    /\ pc = 0
    /\ regs = [KernelRegs EXCEPT ![X.sp] = EStack, ![X.s0] = EStack]
    /\ csr = [mscratch |-> Zero32, mepc |-> Zero32, mcause |-> Zero32,
              mtval |-> Zero32, mstatus |-> Zero32]
    /\ mem = [a \in {Add32(StoredStateAddr(p), 4 * k) : p \in Procs, k \in 0..33}
                 |-> Zero32]
    /\ callee = ""
    /\ running = 0
    /\ resume = Zero32
    /\ entry = [regs |-> regs, csr |-> csr, from |-> "boot"]
    /\ trace = <<>>
    /\ ntraps = 0

TrapNext ==
    \/ KernelTrap
    \/ ProcessTrap
    \/ SwitchToProcess
    \/ ExecCsr
    \/ ExecBranch
    \/ ExecAlu
    \/ ExecStore
    \/ ExecLoad
    \/ ExecCall
    \/ CallReturn
    \/ ExecMret

\* ==========================================================================
\* Syscall router: ExternalCall (kernel/src/external_call.rs) dispatching
\* through Platform::with_driver (boards/nordic/nrf52840dk/src/main.rs)
\* ==========================================================================

\* ---- CommandReturn values ------------------------------------------------
failure(code) == [tag |-> "failure", code |-> code]
success == [tag |-> "success"]
success_u32(v) == [tag |-> "success_u32", val |-> v]
\* no dispatch has happened yet
NoReturn == [tag |-> "none"]

\* ---- Driver Registry -----------------------------------------------------
\* The match arms of with_driver, in source order.
MatchArms == <<"console", "gpio", "alarm", "led", "button", "rng", "adc",
               "ble_radio", "ieee802154_radio", "temp", "analog_comparator",
               "udp_driver", "ipc", "i2c_master_slave", "spi_controller",
               "thread_driver", "kv_driver", "life">>

\* The DRIVER_NUM constant of each arm. The numbers are those of the kernel's
\* driver::NUM table; all that the lookup depends on is that they differ.
DRIVER_NUM ==
    [console |-> W(0, 1), gpio |-> W(0, 4), alarm |-> W(0, 0), led |-> W(0, 2),
     button |-> W(0, 3), rng |-> W(4, 1), adc |-> W(0, 5), ble_radio |-> W(3, 0),
     ieee802154_radio |-> W(3, 1), temp |-> W(6, 0),
     analog_comparator |-> W(0, 7), udp_driver |-> W(3, 2), ipc |-> W(1, 0),
     i2c_master_slave |-> W(2, 6), spi_controller |-> W(2, 1),
     thread_driver |-> W(3, 4), kv_driver |-> W(5, 3), life |-> W(9, 4)]

\* the arm with_driver takes when no number matches: f(None)
NoDriver == "None"

\* The Platform main builds: every field refers to the service object of its
\* own capsule, which is named here after the field.
PlatformAtBoot == [name \in {MatchArms[k] : k \in DOMAIN MatchArms} |-> name]

\* mutant of the default arm: falls through to the last service object
with_driver_default_life(driver_num) ==
    LET hits == {k \in DOMAIN MatchArms : DRIVER_NUM[MatchArms[k]] = driver_num}
    IN  IF hits = {} THEN "life"
        ELSE MatchArms[CHOOSE k \in hits : \A j \in hits : k <= j]

\* with_driver: the first arm whose DRIVER_NUM equals driver_num hands out
\* the object its field of the Platform refers to, f(Some(self.field)); no
\* arm: f(None)
with_driver(driver_num) ==
    LET hits == {k \in DOMAIN MatchArms : DRIVER_NUM[MatchArms[k]] = driver_num}
    IN  IF hits = {} THEN NoDriver
        ELSE platform[MatchArms[CHOOSE k \in hits : \A j \in hits : k <= j]]

\* ---- service objects -----------------------------------------------------
LIFE == W(0, 42)

\* mutant of LifeDriver_command: command 1 accepts every value
LifeDriver_command_lenient(command_num, data) ==
    IF command_num = W(0, 0) THEN success_u32(W(0, 42))
    ELSE IF command_num = W(0, 1) THEN success
         ELSE failure("NOSUPPORT")

\* LifeDriver::command (capsules/core/src/life.rs)
LifeDriver_command(command_num, data) ==
    IF command_num = W(0, 0) THEN success_u32(LIFE)
    ELSE IF command_num = W(0, 1)
         THEN IF data # LIFE THEN failure("INVAL") ELSE success
         ELSE failure("NOSUPPORT")

\* What the command handler of a service object other than LifeDriver may
\* return: these capsules are outside the router, any CommandReturn is possible.
OtherReturns == {success_u32(W(0, 7)), failure("BUSY"), failure("NODEVICE")}

\* d.command(subdriver_number, arg0, arg1, processid)
command(d, subdriver_number, arg0, arg1, processid) ==
    IF d = "life" THEN {LifeDriver_command(subdriver_number, arg0)}
    ELSE OtherReturns

\* ---- frames --------------------------------------------------------------
FrameLen == 17

Bytes(w) == <<w.h \div 256, w.h % 256, w.l \div 256, w.l % 256>>

FromBytes(b, i) == W(b[i] * 256 + b[i + 1], b[i + 2] * 256 + b[i + 3])

Zeros(n) == [k \in 1..n |-> 0]

\* mutant of PackFrame: the top bit of the driver number is sent as it is
PackFrameUnmasked(sc) ==
    <<1>> \o Bytes(sc.driver_number) \o Bytes(sc.subdriver_number)
          \o Bytes(sc.arg0) \o Bytes(sc.arg1)

\* the 17 bytes pack_syscall_and_send builds (buffer[k] is element k + 1)
PackFrame(sc) ==
    LET d == Bytes(sc.driver_number)
    IN  <<1, d[1] % 128, d[2], d[3], d[4]>> \o Bytes(sc.subdriver_number)
            \o Bytes(sc.arg0) \o Bytes(sc.arg1)

\* the 17 bytes handle_external_syscall answers with
ReturnFrame == <<2>> \o Zeros(FrameLen - 1)

\* the fields unpack_bytes reads out of the receive buffer
UnpackFrame(b) ==
    [kind |-> "Command", driver_number |-> FromBytes(b, 2),
     subdriver_number |-> FromBytes(b, 6), arg0 |-> FromBytes(b, 10),
     arg1 |-> FromBytes(b, 14)]

\* start_transmission's copy loop: buffer into tx_buf, as far as tx_buf goes
CopyInto(tx_buf, buffer) ==
    [k \in DOMAIN tx_buf |-> IF k <= Len(buffer) THEN buffer[k] ELSE tx_buf[k]]

\* ---- inputs --------------------------------------------------------------
Command(dn, sn, a0, a1) ==
    [kind |-> "Command", driver_number |-> dn, subdriver_number |-> sn,
     arg0 |-> a0, arg1 |-> a1]

\* driver numbers tried: two registered, two not (one has bit 31 set)
DriverInputs == {DRIVER_NUM.life, DRIVER_NUM.led, W(9, 5), W(2^15, 4)}

UnregisteredInputs == {dn \in DriverInputs : \A k \in DOMAIN MatchArms :
                                                 DRIVER_NUM[MatchArms[k]] # dn}

\* syscalls dispatched: commands to the unregistered numbers with every
\* combination of arguments, commands to the two services, a non-command
SyscallInputs ==
    {Command(dn, sn, a0, a1) : dn \in UnregisteredInputs,
                               sn \in {W(0, 0), W(0, 1), W(0, 2)},
                               a0 \in {W(0, 42), W(0, 7)},
                               a1 \in {Zero32, W(Half - 1, Half - 1)}}
        \cup {Command(DRIVER_NUM.life, sn, a0, Zero32) :
                  sn \in {W(0, 0), W(0, 1), W(0, 2)}, a0 \in {W(0, 42), W(0, 7)}}
        \cup {Command(DRIVER_NUM.led, W(0, 1), W(0, 7), a1) :
                  a1 \in {Zero32, W(Half - 1, Half - 1)}}
        \cup {[kind |-> "Yield"]}

\* syscalls sent to the other board
SendInputs == {Command(W(2^15, 4), W(0, 1), W(0, 42), Zero32),
               Command(DRIVER_NUM.life, W(0, 0), W(0, 7), W(Half - 1, 255)),
               [kind |-> "Yield"]}

\* frames the other board may send: requests, a response, line noise
IncomingFrames ==
    {PackFrame(Command(DRIVER_NUM.life, W(0, 1), W(0, 42), Zero32)),
     PackFrame(Command(W(2^15, 4), W(0, 0), W(0, 7), Zero32)),
     ReturnFrame, Zeros(FrameLen)}

\* the ExternalCall's own dummy process identity, and a real process
SelfProcessId == "external"
ProcessIds == {SelfProcessId, "app"}

\* ---- operations ----------------------------------------------------------
\* start_transmission(buffer): take tx_buffer (BUSY if it is not there), copy,
\* hand it to the UART. If the UART refuses, the buffer it hands back is
\* dropped: tx_buffer is not replaced.
start_transmission(buffer) ==
    IF tx_buffer = <<>>
    THEN UNCHANGED <<tx_buffer, uart_tx>>
    ELSE /\ tx_buffer' = <<>>
         /\ \E ok \in BOOLEAN :
                uart_tx' = IF ok THEN CopyInto(tx_buffer, buffer) ELSE uart_tx

\* receive(), run when the receive side is (job, rx, urx): JOB_PENDING, the
\* content of rx_buffer and the buffer the UART holds. Nothing to do while a
\* job is pending; else take rx_buffer (ALREADY if it is not there) and lend
\* it to the UART; a buffer the UART refuses is dropped.
receive(job, rx, urx) ==
    IF job \/ rx = <<>>
    THEN rx_buffer' = rx /\ uart_rx' = urx
    ELSE /\ rx_buffer' = <<>>
         /\ \E ok \in BOOLEAN : uart_rx' = IF ok THEN rx ELSE urx

\* mutant of dispatch: arg0 and arg1 change places on the way to the handler
dispatch_swapped(processid, syscall) ==
    IF syscall.kind # "Command"
    THEN UNCHANGED <<tx_buffer, uart_tx, dispatched, cres, invoked, panicked,
                     platform>>
    ELSE LET d == with_driver(syscall.driver_number)
         IN  /\ dispatched' = [processid |-> processid, syscall |-> syscall]
             /\ UNCHANGED <<panicked, platform>>
             /\ \E r \in (IF d = NoDriver THEN {failure("NODEVICE")}
                          ELSE command(d, syscall.subdriver_number, syscall.arg1,
                                       syscall.arg0, processid)) :
                    cres' = r
             /\ invoked' = IF d = NoDriver THEN <<>>
                           ELSE <<[driver |-> d,
                                   subdriver_number |-> syscall.subdriver_number,
                                   arg0 |-> syscall.arg1, arg1 |-> syscall.arg0,
                                   processid |-> processid]>>
             /\ start_transmission(ReturnFrame)

\* mutant of dispatch: the lookup takes the service object out of the
\* Platform, as a TakeCell would
dispatch_taking(processid, syscall) ==
    IF syscall.kind # "Command"
    THEN UNCHANGED <<tx_buffer, uart_tx, dispatched, cres, invoked, panicked,
                     platform>>
    ELSE LET d == with_driver(syscall.driver_number)
         IN  /\ dispatched' = [processid |-> processid, syscall |-> syscall]
             /\ panicked' = panicked
             /\ platform' = [name \in DOMAIN platform |->
                                 IF platform[name] = d THEN NoDriver
                                 ELSE platform[name]]
             /\ \E r \in (IF d = NoDriver THEN {failure("NODEVICE")}
                          ELSE command(d, syscall.subdriver_number, syscall.arg0,
                                       syscall.arg1, processid)) :
                    cres' = r
             /\ invoked' = IF d = NoDriver THEN <<>>
                           ELSE <<[driver |-> d,
                                   subdriver_number |-> syscall.subdriver_number,
                                   arg0 |-> syscall.arg0, arg1 |-> syscall.arg1,
                                   processid |-> processid]>>
             /\ start_transmission(ReturnFrame)

\* mutant of dispatch: a failure returned by the lookup or by the handler
\* is escalated to a panic
dispatch_escalating(processid, syscall) ==
    IF syscall.kind # "Command"
    THEN UNCHANGED <<tx_buffer, uart_tx, dispatched, cres, invoked, panicked,
                     platform>>
    ELSE LET d == with_driver(syscall.driver_number)
         IN  /\ dispatched' = [processid |-> processid, syscall |-> syscall]
             /\ \E r \in (IF d = NoDriver THEN {failure("NODEVICE")}
                          ELSE command(d, syscall.subdriver_number, syscall.arg0,
                                       syscall.arg1, processid)) :
                    cres' = r /\ panicked' = (r.tag = "failure")
             /\ UNCHANGED platform
             /\ invoked' = IF d = NoDriver THEN <<>>
                           ELSE <<[driver |-> d,
                                   subdriver_number |-> syscall.subdriver_number,
                                   arg0 |-> syscall.arg0, arg1 |-> syscall.arg1,
                                   processid |-> processid]>>
             /\ start_transmission(ReturnFrame)

\* the body of handle_external_syscall, after that of whatever preceded it
\* left the receive side alone; a failure is a value like any other, no
\* branch of the body panics
dispatch(processid, syscall) ==
    IF syscall.kind # "Command"
    THEN UNCHANGED <<tx_buffer, uart_tx, dispatched, cres, invoked, panicked,
                     platform>>
    ELSE LET d == with_driver(syscall.driver_number)
         IN  /\ dispatched' = [processid |-> processid, syscall |-> syscall]
             /\ UNCHANGED <<panicked, platform>>
             /\ \E r \in (IF d = NoDriver THEN {failure("NODEVICE")}
                          ELSE command(d, syscall.subdriver_number, syscall.arg0,
                                       syscall.arg1, processid)) :
                    cres' = r
             /\ invoked' = IF d = NoDriver THEN <<>>
                           ELSE <<[driver |-> d,
                                   subdriver_number |-> syscall.subdriver_number,
                                   arg0 |-> syscall.arg0, arg1 |-> syscall.arg1,
                                   processid |-> processid]>>
             /\ start_transmission(ReturnFrame)

\* ExternalCall::handle_external_syscall(resources, processid, syscall)
handle_external_syscall ==
    /\ ~panicked
    /\ \E processid \in ProcessIds, syscall \in SyscallInputs :
           dispatch(processid, syscall)
    /\ UNCHANGED <<JOB_PENDING, rx_buffer, uart_rx>>
    /\ UNCHANGED <<trapVars, deferredVars, entryVars, registryVars, redirectVars>>

\* ExternalCall::service_next_pending: with a job pending, clear the flag,
\* unpack the request (unwrap panics when rx_buffer is not there; the buffer
\* taken is not put back) and dispatch it under the dummy process identity.
ExternalCall_service_next_pending ==
    /\ ~panicked
    /\ IF ~JOB_PENDING
       THEN UNCHANGED routerVars
       ELSE /\ JOB_PENDING' = FALSE
            /\ IF rx_buffer = <<>>
               THEN /\ panicked' = TRUE
                    /\ UNCHANGED <<tx_buffer, rx_buffer, uart_tx, uart_rx,
                                   platform, dispatched, cres, invoked>>
               ELSE /\ rx_buffer' = <<>>
                    /\ dispatch(SelfProcessId, UnpackFrame(rx_buffer))
                    /\ UNCHANGED uart_rx
    /\ UNCHANGED <<trapVars, deferredVars, entryVars, registryVars, redirectVars>>

\* ExternalCall::set
ExternalCall_set ==
    /\ ~panicked
    /\ JOB_PENDING' = TRUE
    /\ UNCHANGED <<tx_buffer, rx_buffer, uart_tx, uart_rx, panicked, platform,
                   dispatched, cres, invoked>>
    /\ UNCHANGED <<trapVars, deferredVars, entryVars, registryVars, redirectVars>>

\* ExternalCall::receive called by the board
ExternalCall_receive ==
    /\ ~panicked
    /\ receive(JOB_PENDING, rx_buffer, uart_rx)
    /\ UNCHANGED <<JOB_PENDING, tx_buffer, uart_tx, panicked, platform,
                   dispatched, cres, invoked>>
    /\ UNCHANGED <<trapVars, deferredVars, entryVars, registryVars, redirectVars>>

\* ExternalCall::pack_syscall_and_send(syscall)
pack_syscall_and_send ==
    /\ ~panicked
    /\ \E syscall \in SendInputs :
           IF syscall.kind # "Command"
           THEN UNCHANGED <<tx_buffer, uart_tx>>
           ELSE start_transmission(PackFrame(syscall))
    /\ UNCHANGED <<JOB_PENDING, rx_buffer, uart_rx, panicked, platform,
                   dispatched, cres, invoked>>
    /\ UNCHANGED <<trapVars, deferredVars, entryVars, registryVars, redirectVars>>

\* TransmitClient::transmitted_buffer: the UART gives the buffer back; it is
\* put into tx_buffer and reception is (re)started.
transmitted_buffer ==
    /\ ~panicked
    /\ uart_tx # <<>>
    /\ tx_buffer' = uart_tx
    /\ uart_tx' = <<>>
    /\ receive(JOB_PENDING, rx_buffer, uart_rx)
    /\ UNCHANGED <<JOB_PENDING, panicked, platform, dispatched, cres, invoked>>
    /\ UNCHANGED <<trapVars, deferredVars, entryVars, registryVars, redirectVars>>

\* mutant of JobAfter: every frame but line noise counts as a request
JobAfterAnyFrame(id, job) == IF id # 0 THEN TRUE ELSE job

\* JOB_PENDING after received_buffer has looked at the first byte: id 2 does
\* nothing, id 1 calls set()
JobAfter(id, job) == IF id = 2 THEN job ELSE IF id = 1 THEN TRUE ELSE job

\* ReceiveClient::received_buffer: the UART gives back the buffer, now
\* holding a frame; the buffer goes into rx_buffer, a request (id 1) sets
\* JOB_PENDING, and reception is restarted.
received_buffer ==
    /\ ~panicked
    /\ uart_rx # <<>>
    /\ \E frame \in IncomingFrames :
           LET buffer == CopyInto(uart_rx, frame)
               id == buffer[1]
               job == JobAfter(id, JOB_PENDING)
           IN  /\ JOB_PENDING' = job
               /\ receive(job, buffer, <<>>)
    /\ UNCHANGED <<tx_buffer, uart_tx, panicked, platform, dispatched, cres,
                   invoked>>
    /\ UNCHANGED <<trapVars, deferredVars, entryVars, registryVars, redirectVars>>

\* After ExternalCall::new: both buffers in their cells, nothing pending.
RouterInit ==
    /\ JOB_PENDING = FALSE
    /\ tx_buffer = Zeros(FrameLen)
    /\ rx_buffer = Zeros(FrameLen)
    /\ uart_tx = <<>>
    /\ uart_rx = <<>>
    /\ panicked = FALSE
    /\ platform = PlatformAtBoot
    /\ dispatched = [processid |-> "", syscall |-> [kind |-> "none"]]
    /\ cres = NoReturn
    /\ invoked = <<>>

RouterNext ==
    \/ handle_external_syscall
    \/ ExternalCall_service_next_pending
    \/ ExternalCall_set
    \/ ExternalCall_receive
    \/ pack_syscall_and_send
    \/ transmitted_buffer
    \/ received_buffer

\* ==========================================================================
\* Deferred call scheduler: a table of Capacity call sites and a pending
\* bitmask, one bit per site.
\* ==========================================================================
\* size of the registration table, and width of the bitmask
Capacity == 32

NoHandler == "none"

\* ---- the bitmask, a 32-bit word ------------------------------------------
\* 1 << i
BitWord(i) == IF i < 16 THEN W(0, 2^i) ELSE W(2^(i - 16), 0)

\* val & (1 << i) != 0
TestBit(w, i) ==
    IF i < 16 THEN (w.l \div 2^i) % 2 = 1 ELSE (w.h \div 2^(i - 16)) % 2 = 1

\* mutant of SetBit: adds the bit instead of or-ing it in
SetBitAdd(w, i) ==
    IF i < 16 THEN Add32(w, 2^i) ELSE W((w.h + 2^(i - 16)) % Half, w.l)

\* val | (1 << i)
SetBit(w, i) == Or32(w, BitWord(i))

\* mutant of ClearBit: the whole word is cleared
ClearAllBits(w, i) == Zero32

\* val & !(1 << i)
ClearBit(w, i) ==
    IF ~TestBit(w, i) THEN w
    ELSE IF i < 16 THEN W(w.h, w.l - 2^i) ELSE W(w.h - 2^(i - 16), w.l)

RECURSIVE Ctz16(_, _)
\* trailing zeros of a nonzero 16-bit number x, counted from n
Ctz16(x, n) == IF x % 2 = 1 THEN n ELSE Ctz16(x \div 2, n + 1)

\* mutant of trailing_zeros: selects the highest set bit
highest_bit(w) ==
    IF w = Zero32 THEN 32
    ELSE CHOOSE i \in 0..31 :
             TestBit(w, i) /\ \A j \in 0..31 : TestBit(w, j) => j <= i

\* count-trailing-zeros of a word (32 for zero)
trailing_zeros(w) ==
    IF w.l # 0 THEN Ctz16(w.l, 0)
    ELSE IF w.h # 0 THEN 16 + Ctz16(w.h, 0) ELSE 32

\* mutant of has_tasks: only the lower half of the bitmask is looked at
has_tasks_low == bitmask.l # 0

\* has_tasks(): the bitmask is nonzero
has_tasks == bitmask # Zero32

\* ---- inputs --------------------------------------------------------------
\* create() is called at most this many times
MaxCreate == 33

\* set() calls counted per site between two services of it
MaxSets == 2

\* the sites that get scheduled
SchedSites == {2, 5, 9, 31}

\* the sites whose handler is registered more than once
ReRegSites == {2}

\* handlers: every site's own client "a", and a second client "b"
HandlerIds == {"a", "b"}

\* created sites that have no handler in the table
Unregistered ==
    {i \in 0..(created - 1) : i >= Capacity \/ handlers[i] = NoHandler}

\* Sites register is called on: boot code registers its sites in creation
\* order, possibly leaving one out; the sites of ReRegSites register again.
RegisterInputs ==
    {i \in Unregistered :
         Cardinality({j \in Unregistered : j < i}) <= 1}
        \cup {i \in ReRegSites : i < created /\ i \notin Unregistered}

\* lastService is what the last operation was: a service_next_pending (ret
\* is the Option returned: <<>> for None, <<i>> for Some(i)), a register
\* (with its site, its handler and the table entry it found), a run of the
\* drain loop (with the bitmask it started from and the sites its calls
\* serviced, in order), or another one
NoService == [op |-> "none"]

\* ---- operations ----------------------------------------------------------
\* create(): the next sequential index; no capacity check here
create ==
    /\ phase = "boot"
    /\ created < MaxCreate
    /\ created' = created + 1
    /\ lastService' = NoService
    /\ UNCHANGED <<handlers, bitmask, phase, setsSince, runsSince>>
    /\ UNCHANGED <<trapVars, routerVars, entryVars, registryVars, redirectVars>>

\* mutant of Registered: a site that has a handler keeps it
RegisteredFirstWins(tbl, i, h) ==
    IF i < Capacity /\ tbl[i] = NoHandler THEN [tbl EXCEPT ![i] = h] ELSE tbl

\* the table after register(h) on site i
Registered(tbl, i, h) ==
    IF i < Capacity THEN [tbl EXCEPT ![i] = h] ELSE tbl

\* register(handler) on site i: the table entry of the site is overwritten;
\* a site beyond the table has no entry to write
register ==
    /\ phase \in {"boot", "run"}
    /\ \E i \in RegisterInputs :
       \E h \in (IF i \in ReRegSites THEN HandlerIds ELSE {"a"}) :
           /\ handlers' = Registered(handlers, i, h)
           /\ lastService' = [op |-> "register", site |-> i, handler |-> h,
                               prev |-> IF i < Capacity THEN handlers[i]
                                        ELSE NoHandler]
    /\ UNCHANGED <<created, bitmask, phase, setsSince, runsSince>>
    /\ UNCHANGED <<trapVars, routerVars, entryVars, registryVars, redirectVars>>

\* mutant of SetupValid: the registrations are not counted
SetupValidNoCount == created <= Capacity

\* what verify_setup checks
SetupValid ==
    /\ created <= Capacity
    /\ Cardinality({i \in 0..(Capacity - 1) : handlers[i] # NoHandler}) = created

\* verify_setup(): once, at the end of boot; failure is fatal
verify_setup ==
    /\ phase = "boot"
    /\ phase' = IF SetupValid THEN "run" ELSE "halted"
    /\ lastService' = NoService
    /\ UNCHANGED <<created, handlers, bitmask, setsSince, runsSince>>
    /\ UNCHANGED <<trapVars, routerVars, entryVars, registryVars, redirectVars>>

\* set() on site i
DeferredCall_set ==
    /\ phase = "run"
    /\ \E i \in SchedSites :
           /\ i < created
           /\ setsSince[i] < MaxSets
           /\ bitmask' = SetBit(bitmask, i)
           /\ setsSince' = [setsSince EXCEPT ![i] = @ + 1]
           /\ runsSince' = [runsSince EXCEPT ![i] = 0]
    /\ lastService' = NoService
    /\ UNCHANGED <<created, handlers, phase>>
    /\ UNCHANGED <<trapVars, routerVars, entryVars, registryVars, redirectVars>>

\* mutant of AfterHandler: the word computed before the handler ran is what
\* ends up in the bitmask, a set() made by the handler is lost
AfterHandlerStale(new_val, rs) == new_val

\* the bitmask once the handler has run: the bit was cleared first, the
\* set() calls of the handler (on the sites rs) land on the cleared word
AfterHandler(new_val, rs) ==
    IF rs = {} THEN new_val ELSE SetBit(new_val, CHOOSE j \in rs : TRUE)

\* service_next_pending(): with a nonzero bitmask, select the lowest set bit,
\* clear it, run the handler of that site. The handler may call set() on a
\* site (on none, or on one of SchedSites).
DeferredCall_service_next_pending ==
    /\ phase = "run"
    /\ LET val == bitmask
           bit == trailing_zeros(val)
           new_val == ClearBit(val, bit)
       IN  IF val = Zero32
           THEN /\ lastService' = [op |-> "service", before |-> val,
                                   ret |-> <<>>, invoked |-> <<>>,
                                   sets |-> 0, rescheduled |-> {}]
                /\ UNCHANGED <<bitmask, setsSince, runsSince>>
           ELSE \E rs \in {{}} \cup {{j} : j \in {k \in SchedSites : k < created}} :
                    /\ \A j \in rs : j = bit \/ setsSince[j] < MaxSets
                    /\ bitmask' = AfterHandler(new_val, rs)
                    /\ setsSince' = [i \in DOMAIN setsSince |->
                                        IF i \in rs
                                        THEN (IF i = bit THEN 0 ELSE setsSince[i]) + 1
                                        ELSE IF i = bit THEN 0 ELSE setsSince[i]]
                    /\ runsSince' = [i \in DOMAIN runsSince |->
                                        IF i \in rs THEN 0
                                        ELSE IF i = bit
                                             THEN (IF runsSince[i] < 2
                                                   THEN runsSince[i] + 1 ELSE 2)
                                             ELSE runsSince[i]]
                    /\ lastService' = [op |-> "service", before |-> val,
                                       ret |-> <<bit>>,
                                       invoked |-> <<[site |-> bit,
                                                      handler |-> handlers[bit]]>>,
                                       sets |-> IF bit \in DOMAIN setsSince
                                                THEN setsSince[bit] ELSE 0,
                                       rescheduled |-> rs]
    /\ UNCHANGED <<created, handlers, phase>>
    /\ UNCHANGED <<trapVars, routerVars, entryVars, registryVars, redirectVars>>

\* calls of service_next_pending followed within one run of the drain loop
MaxDrainCalls == Capacity + 1

RECURSIVE DrainLoop(_, _)
\* the loop `while has_tasks() { service_next_pending() }` from the bitmask
\* w, with handlers that schedule nothing: the sites serviced, in the order
\* of the calls, and the bitmask left; n calls are followed at most
DrainLoop(w, n) ==
    IF w = Zero32 \/ n = 0 THEN [order |-> <<>>, bitmask |-> w]
    ELSE LET bit == trailing_zeros(w)
             rest == DrainLoop(AfterHandler(ClearBit(w, bit), {}), n - 1)
         IN  [order |-> <<bit>> \o rest.order, bitmask |-> rest.bitmask]

\* the number of calls in order that serviced site i
RunsOf(order, i) == Cardinality({k \in DOMAIN order : order[k] = i})

\* the idle loop drains the scheduler: service_next_pending is called while
\* has_tasks() is true, and no handler schedules anything
drain ==
    /\ phase = "run"
    /\ LET d == DrainLoop(bitmask, MaxDrainCalls)
       IN  /\ bitmask' = d.bitmask
           /\ setsSince' = [i \in DOMAIN setsSince |->
                               IF RunsOf(d.order, i) > 0 THEN 0 ELSE setsSince[i]]
           /\ runsSince' = [i \in DOMAIN runsSince |->
                               IF runsSince[i] + RunsOf(d.order, i) < 2
                               THEN runsSince[i] + RunsOf(d.order, i) ELSE 2]
           /\ lastService' = [op |-> "drain", before |-> bitmask,
                               order |-> d.order]
    /\ UNCHANGED <<created, handlers, phase>>
    /\ UNCHANGED <<trapVars, routerVars, entryVars, registryVars, redirectVars>>

\* Before the first create(): no site, empty table, nothing pending.
DeferredInit ==
    /\ created = 0
    /\ handlers = [i \in 0..(Capacity - 1) |-> NoHandler]
    /\ bitmask = Zero32
    /\ phase = "boot"
    /\ lastService = NoService
    /\ setsSince = [i \in SchedSites |-> 0]
    /\ runsSince = [i \in SchedSites |-> 0]

DeferredNext ==
    \/ create
    \/ register
    \/ verify_setup
    \/ DeferredCall_set
    \/ DeferredCall_service_next_pending
    \/ drain

\* ==========================================================================
\* Entry points that keep no state between calls
\* ==========================================================================
\* ---- configure_trap_handler (arch/rv32i/src/lib.rs) ------------------------
\* enum PermissionMode
PermissionMode == [User |-> 0, Supervisor |-> 1, Reserved |-> 2, Machine |-> 3]

\* w >> 2 on a 32-bit word
Shr2(w) == W(w.h \div 4, (w.h % 4) * 2^14 + w.l \div 4)

\* trap_addr.val(v): v in the field at bits 2..31 of the register
trap_addr_val(v) == W((v.h % 2^14) * 4 + v.l \div 2^14, (v.l % 2^14) * 4)

\* mode::CLEAR: the field at bits 0..1 zero (direct mode)
mode_CLEAR == Zero32

\* where the linker may have put _start_trap: at a multiple of 4, or of 2
StartTrapAddrs == {W(2^15 + 1, 256), W(2^15 + 1, 514)}

\* the vector registers as reset leaves them
ResetVectors == [mtvec |-> W(0, 4), stvec |-> W(1, 8), utvec |-> W(2, 1)]

\* mutant of VectorOf: every level is given the machine vector
VectorOfMachineOnly(level) == "mtvec"

\* the arm of the match: the register written for a privilege level
VectorOf(level) ==
    IF level = "Machine" THEN "mtvec"
    ELSE IF level = "Supervisor" THEN "stvec"
    ELSE "utvec"

\* configure_trap_handler(mode); the parameter is called level here, mode
\* being the dispatcher's variable
configure_trap_handler ==
    /\ \E level \in DOMAIN PermissionMode, _start_trap \in StartTrapAddrs :
        /\ tvec' = IF level = "Reserved" THEN tvec
                   ELSE [tvec EXCEPT ![VectorOf(level)] =
                            Or32(trap_addr_val(Shr2(_start_trap)), mode_CLEAR)]
        /\ call' = [fn |-> "configure_trap_handler", mode |-> level,
                    addr |-> _start_trap]
    /\ UNCHANGED <<trapVars, routerVars, deferredVars, registryVars, redirectVars>>

\* ---- the command handlers of the capsules --------------------------------
MARY_AGE == W(0, 20)

\* MaryDriver::command (capsules/core/src/mary.rs); the third and fourth
\* parameter have no name in the source
MaryDriver_command(command_num, data) ==
    IF command_num = W(0, 0) THEN success_u32(MARY_AGE)
    ELSE IF command_num = W(0, 1)
         THEN IF data # MARY_AGE THEN failure("INVAL") ELSE success
         ELSE failure("NOSUPPORT")

\* command numbers, data words and second arguments the handlers are called
\* with
CommandNums == {W(0, 0), W(0, 1), W(0, 2), W(Half - 1, Half - 1)}

DataInputs == {Zero32, W(0, 20), W(0, 42), W(1, 42)}

Arg1Inputs == {W(0, 42), W(Half - 1, Half - 1)}

\* a call of LifeDriver::command, as the kernel makes it
LifeDriver_call ==
    /\ \E command_num \in CommandNums, data \in DataInputs,
          arg1 \in Arg1Inputs, processid \in ProcessIds :
        \E r \in command("life", command_num, data, arg1, processid) :
            call' = [fn |-> "LifeDriver::command", command_num |-> command_num,
                     data |-> data, arg1 |-> arg1, processid |-> processid,
                     ret |-> r]
    /\ UNCHANGED <<tvec, trapVars, routerVars, deferredVars, registryVars, redirectVars>>

\* a call of MaryDriver::command
MaryDriver_call ==
    /\ \E command_num \in CommandNums, data \in DataInputs,
          arg1 \in Arg1Inputs, processid \in ProcessIds :
        call' = [fn |-> "MaryDriver::command", command_num |-> command_num,
                 data |-> data, arg1 |-> arg1, processid |-> processid,
                 ret |-> MaryDriver_command(command_num, data)]
    /\ UNCHANGED <<tvec, trapVars, routerVars, deferredVars, registryVars, redirectVars>>

\* ---- framing of external calls ------------------------------------------
\* field values of the Command syscalls framed: the driver number has bit 31
\* set and clear; among the others every byte position gets a zero, a
\* nonzero and an all-ones byte, and the top bit is set and clear
FieldInputs == {Zero32, W(0, 42), W(2^15 + 1, 2), W(4660, 22136),
                W(Half - 1, Half - 1)}

SubdriverInputs == {W(0, 1), W(2^15 + 1, 2)}

Arg0Inputs == {Zero32, W(4660, 22136), W(Half - 1, Half - 1)}

\* pack_syscall_and_send on one board, unpack_bytes of the 17 bytes on the
\* other
frame_round_trip ==
    /\ \E dn \in FieldInputs, sn \in SubdriverInputs, a0 \in Arg0Inputs,
          a1 \in Arg1Inputs :
        LET syscall == Command(dn, sn, a0, a1)
            buffer  == PackFrame(syscall)
        IN  call' = [fn |-> "unpack_bytes", syscall |-> syscall,
                     buffer |-> buffer, ret |-> UnpackFrame(buffer)]
    /\ UNCHANGED <<tvec, trapVars, routerVars, deferredVars, registryVars, redirectVars>>

\* ---- specification --------------------------------------------------------
EntryInit ==
    /\ tvec = ResetVectors
    /\ call = [fn |-> "none"]

EntryNext ==
    \/ configure_trap_handler
    \/ LifeDriver_call
    \/ MaryDriver_call
    \/ frame_round_trip

\* ==========================================================================
\* Registry of external drivers (capsules/core/src/external_driver.rs)
\* ==========================================================================
MAXDRIVERS == 100

\* the count below which add_driver stores a driver
AddLimit == 10

\* the pair every slot holds after new(), and the pair remove_driver leaves
EmptySlot == [num |-> W(2^15, 0), driver |-> NoDriver]

RemovedSlot == [num |-> Zero32, driver |-> NoDriver]

\* driver numbers and driver objects the registry is called with
AddNums == {W(0, 5)}

LookupNums == {W(0, 5), Zero32, W(2^15, 0)}

ExternalDrivers == {"life", "mary"}

\* add_driver calls that store a driver, at most
MaxAdds == 2

\* slots of the new registry that remove_driver is let overwrite, at most:
\* remove_driver is not called with the number of a never-used slot once
\* that many are gone
MaxEmptyRemoved == 2

\* the never-used slots that have been overwritten
EmptyRemoved ==
    MAXDRIVERS - Cardinality({i \in DOMAIN external_drivers :
                                  external_drivers[i] = EmptySlot})

\* the slots the loop `for i in 0..self.count` visits until it finds
\* driver_num: the first hit, or no hit. A slot beyond the array is visited
\* (and the access is out of bounds) when count is larger than the array.
Hits(driver_num) ==
    {i \in 0..(count - 1) :
         i \in DOMAIN external_drivers /\ external_drivers[i].num = driver_num}

FirstHit(driver_num) ==
    CHOOSE i \in Hits(driver_num) : \A j \in Hits(driver_num) : i <= j

\* the highest index the loop reads (-1: none)
LastVisited(driver_num) ==
    IF Hits(driver_num) = {} THEN count - 1 ELSE FirstHit(driver_num)

\* mutant of AddGuard: add_driver stores whenever it is called
AddGuardAlways == TRUE

\* the guard of add_driver
AddGuard == count < AddLimit

\* ExternalDriver::get_driver
get_driver(driver_num) ==
    IF Hits(driver_num) = {} THEN NoDriver
    ELSE external_drivers[FirstHit(driver_num)].driver

\* ExternalDriver::find_driver
find_driver(driver_num) ==
    IF Hits(driver_num) = {} THEN Zero32
    ELSE external_drivers[FirstHit(driver_num)].num

\* the registry is as new() built it
Fresh ==
    /\ count = MAXDRIVERS
    /\ \A i \in DOMAIN external_drivers : external_drivers[i] = EmptySlot

\* ExternalDriver::add_driver(driver_num, driver)
add_driver ==
    /\ \E driver_num \in AddNums, driver \in ExternalDrivers :
           IF AddGuard
           THEN /\ adds < MaxAdds
                /\ external_drivers' =
                       IF count \in DOMAIN external_drivers
                       THEN [external_drivers EXCEPT
                                 ![count] = [num |-> driver_num, driver |-> driver]]
                       ELSE external_drivers
                /\ count' = count + 1
                /\ adds' = adds + 1
                /\ regop' = [op |-> "add_driver", num |-> driver_num,
                             driver |-> driver, fresh |-> Fresh,
                             touched |-> count]
           ELSE /\ regop' = [op |-> "add_driver", num |-> driver_num,
                             driver |-> driver, fresh |-> Fresh,
                             touched |-> -1]
                /\ UNCHANGED <<external_drivers, count, adds>>
    /\ UNCHANGED <<trapVars, routerVars, deferredVars, entryVars, redirectVars>>

\* ExternalDriver::get_driver and find_driver called with a number
lookup_driver ==
    /\ \E driver_num \in LookupNums :
           regop' = [op |-> "lookup", num |-> driver_num,
                     get |-> get_driver(driver_num),
                     find |-> find_driver(driver_num),
                     touched |-> LastVisited(driver_num)]
    /\ UNCHANGED <<external_drivers, count, adds>>
    /\ UNCHANGED <<trapVars, routerVars, deferredVars, entryVars, redirectVars>>

\* ExternalDriver::remove_driver(driver_num): the first slot that holds the
\* number is overwritten and count goes down by one
remove_driver ==
    /\ \E driver_num \in LookupNums :
           /\ driver_num = EmptySlot.num => EmptyRemoved < MaxEmptyRemoved
           /\ IF Hits(driver_num) = {}
              THEN UNCHANGED <<external_drivers, count>>
              ELSE /\ external_drivers' =
                          [external_drivers EXCEPT
                               ![FirstHit(driver_num)] = RemovedSlot]
                   /\ count' = count - 1
           /\ regop' = [op |-> "remove_driver", num |-> driver_num,
                        touched |-> LastVisited(driver_num)]
    /\ UNCHANGED adds
    /\ UNCHANGED <<trapVars, routerVars, deferredVars, entryVars, redirectVars>>

\* After ExternalDriver::new()
RegistryInit ==
    /\ external_drivers = [i \in 0..(MAXDRIVERS - 1) |-> EmptySlot]
    /\ count = MAXDRIVERS
    /\ adds = 0
    /\ regop = [op |-> "none"]

RegistryNext ==
    \/ add_driver
    \/ lookup_driver
    \/ remove_driver

\* ==========================================================================
\* First draft of the servicer (kernel/src/external_redirect.rs)
\* ==========================================================================
\* the syscall service_pending makes up
DummySyscall == Command(W(0, 2), W(0, 1), W(0, 1), Zero32)

\* handle_external_syscall of the draft: a Command is looked up and handed
\* to the command handler; the result goes nowhere
redirect_dispatch(op, job, processid, syscall) ==
    IF syscall.kind # "Command"
    THEN redirected' = [op |-> op, job |-> job, dispatched |-> <<>>]
    ELSE LET d == with_driver(syscall.driver_number)
         IN  \E r \in (IF d = NoDriver THEN {failure("NODEVICE")}
                        ELSE command(d, syscall.subdriver_number, syscall.arg0,
                                     syscall.arg1, processid)) :
                 redirected' = [op |-> op, job |-> job,
                                dispatched |-> <<[processid |-> processid,
                                                  syscall |-> syscall,
                                                  driver |-> d, cres |-> r]>>]

\* handle_external_syscall(resources, processid, syscall) of the draft
redirect_handle_external_syscall ==
    /\ \E processid \in ProcessIds, syscall \in SyscallInputs :
           redirect_dispatch("handle_external_syscall", WAITING_SYS, processid,
                             syscall)
    /\ UNCHANGED WAITING_SYS
    /\ UNCHANGED <<trapVars, routerVars, deferredVars, entryVars, registryVars>>

\* ExternalCall::set of the draft
redirect_set ==
    /\ WAITING_SYS' = TRUE
    /\ redirected' = [op |-> "set", job |-> WAITING_SYS, dispatched |-> <<>>]
    /\ UNCHANGED <<trapVars, routerVars, deferredVars, entryVars, registryVars>>

\* ExternalCall::service_pending: the flag is cleared when it was set; the
\* dispatch of the made-up syscall follows the if, whatever the flag was
service_pending ==
    /\ WAITING_SYS' = IF WAITING_SYS THEN FALSE ELSE WAITING_SYS
    /\ redirect_dispatch("service_pending", WAITING_SYS, SelfProcessId,
                         DummySyscall)
    /\ UNCHANGED <<trapVars, routerVars, deferredVars, entryVars, registryVars>>

\* no external syscall is waiting
RedirectInit ==
    /\ WAITING_SYS = FALSE
    /\ redirected = [op |-> "none", job |-> FALSE, dispatched |-> <<>>]

RedirectNext ==
    \/ redirect_handle_external_syscall
    \/ redirect_set
    \/ service_pending

\* ==========================================================================
\* Specifications
\* ==========================================================================
\* The state after boot-time construction of the three components.
Init == TrapInit /\ RouterInit /\ DeferredInit /\ EntryInit
        /\ RegistryInit /\ RedirectInit

\* the trap dispatcher
TrapSpec == Init /\ [][TrapNext]_vars

\* the syscall router
RouterSpec == Init /\ [][RouterNext]_vars

\* the deferred call scheduler
DeferredSpec == Init /\ [][DeferredNext]_vars


\* the entry points that keep no state between calls
EntrySpec == Init /\ [][EntryNext]_vars

\* a step in which the UART hands a buffer back with an error code: the
\* transmit buffer leaves tx_buffer and does not reach the UART, or, with no
\* job pending, the receive buffer ends up neither in rx_buffer nor there
UartRefuses ==
    \/ tx_buffer # <<>> /\ tx_buffer' = <<>> /\ uart_tx' = uart_tx
    \/ /\ ~JOB_PENDING /\ ~JOB_PENDING'
       /\ rx_buffer # <<>> \/ uart_rx # <<>>
       /\ rx_buffer' = <<>> /\ uart_rx' = <<>>

\* the steps of the router on a UART that accepts every buffer
RouterLiveNext ==
    \/ handle_external_syscall /\ ~UartRefuses
    \/ ExternalCall_service_next_pending /\ ~UartRefuses
    \/ ExternalCall_set
    \/ ExternalCall_receive /\ ~UartRefuses
    \/ pack_syscall_and_send /\ ~UartRefuses
    \/ transmitted_buffer /\ ~UartRefuses
    \/ received_buffer /\ ~UartRefuses

\* the syscall router on a UART that accepts every buffer and completes every
\* transmission, under a kernel loop that keeps calling service_next_pending
RouterLiveSpec ==
    /\ Init
    /\ [][RouterLiveNext]_vars
    /\ WF_vars(transmitted_buffer /\ ~UartRefuses)
    /\ WF_vars(ExternalCall_service_next_pending /\ ~UartRefuses)

\* the registry of external drivers
RegistrySpec == Init /\ [][RegistryNext]_vars

\* the first draft of the external-call servicer
RedirectSpec == Init /\ [][RedirectNext]_vars
\* ==========================================================================
\* Properties of the trap dispatcher (checked under TrapSpec)
\* ==========================================================================
\* the dispatcher has just executed mret
Returned ==
    /\ mode \in {"kernel", "process"}
    /\ trace # <<>>
    /\ Program[trace[Len(trace)].pc].op = "mret"

\* the trap was taken while the Scratch Flag was nonzero / zero
FlagWasSet == entry.from # "boot" /\ entry.csr.mscratch # Zero32

FlagWasClear == entry.from # "boot" /\ entry.csr.mscratch = Zero32

\* where execution went after the bnez of the entry code
AfterEntryPc == IF Len(trace) >= 3 THEN trace[3].pc ELSE pc

KernelPathTaken == Len(trace) >= 2 /\ AfterEntryPc = Len(TrapEntryCode) + 1

AppPathTaken == Len(trace) >= 2 /\ AfterEntryPc = LabelPos("300")

\* the events of the executed instructions that satisfy P
EventsWith(P(_)) == {k \in DOMAIN trace : P(trace[k])}

IsCall(e) == Program[e.pc].op = "jal"

IsStore(e) == e.addr # NoAddr

\* csrw c, rs: a CSR write that reads nothing back
IsCsrw(e) == Program[e.pc].op = "csrrw" /\ Program[e.pc].rd = 0

\* C1: when the dispatcher returns from a trap taken with the Scratch Flag
\* nonzero, slot N-1 of the running process's Stored Process State holds the
\* value xN had at the instant of the trap, for every N in 1..31 (s0, sp and
\* t0 included).
C1_RegistersPreserved ==
    (Returned /\ FlagWasSet) =>
        \A n \in 1..31 :
            Rd(mem, Add32(StoredStateAddr(running), 4 * (n - 1))) = entry.regs[n]

\* a process trap has returned; the process held distinct values in s0, sp, t0
C1_Witness ==
    /\ Returned /\ FlagWasSet
    /\ entry.from = "process"
    /\ entry.regs[X.sp] # Zero32
    /\ Cardinality({entry.regs[X.s0], entry.regs[X.sp], entry.regs[X.t0]}) = 3

\* C2: the first instruction of every trap entry exchanges the Scratch Flag
\* with sp (old flag into sp, old sp into the flag) and nothing else changes;
\* the from-kernel path is taken iff the value then in sp is zero, the
\* from-process path iff it is nonzero.
C2_OriginClassification ==
    /\ Len(trace) >= 1 =>
        /\ trace[1].pc = 1
        /\ trace[1].sp = entry.regs[X.sp] /\ trace[1].flag = entry.csr.mscratch
    /\ Len(trace) = 1 =>
        /\ regs = [entry.regs EXCEPT ![X.sp] = entry.csr.mscratch]
        /\ csr = [entry.csr EXCEPT !.mscratch = entry.regs[X.sp]]
    /\ Len(trace) >= 2 =>
        /\ trace[2].sp = entry.csr.mscratch
        /\ trace[2].flag = entry.regs[X.sp]
        /\ \A k \in DOMAIN trace : k <= 2 => trace[k].addr = NoAddr
        /\ KernelPathTaken <=> trace[2].sp = Zero32
        /\ AppPathTaken <=> trace[2].sp # Zero32

\* a process whose own sp is 0 traps: the from-process path is taken
C2_Witness ==
    /\ mode = "trap"
    /\ AppPathTaken
    /\ entry.from = "process"
    /\ entry.regs[X.sp] = Zero32
    /\ Len(trace) >= 3

\* C3: the Scratch Flag is 0 wherever kernel code outside the dispatcher
\* executes (at boot, after every mret, and in the Rust functions the
\* dispatcher calls) and at every mret; a nonzero flag outside the dispatcher
\* is the kernel stack pointer saved while a process runs.
C3_FlagZeroInKernel ==
    /\ mode = "kernel" => csr.mscratch = Zero32
    /\ mode = "call" => csr.mscratch = Zero32
    /\ Returned => trace[Len(trace)].flag = Zero32
    /\ (mode = "process" /\ csr.mscratch # Zero32) => csr.mscratch \in KernelFrames

\* the part of C3 that the code keeps: outside of the dispatcher and of the
\* functions it calls
C3_FlagZeroAtReturn ==
    /\ mode = "kernel" => csr.mscratch = Zero32
    /\ Returned => trace[Len(trace)].flag = Zero32
    /\ (mode = "process" /\ csr.mscratch # Zero32) => csr.mscratch \in KernelFrames

\* the stack pointer the from-kernel path must work with
StackBase ==
    IF GtU(entry.regs[X.sp], SStack) THEN entry.regs[X.sp] ELSE EStack

\* C4: in a from-kernel trap every write to the stack is made with sp set to
\* 64 bytes below _estack when the interrupted sp was at or below _sstack
\* (unsigned, equality included), and 64 bytes below the interrupted sp when
\* it was strictly above; the write lies in those 64 bytes, and the
\* dispatcher returns with sp at that base.
C4_StackReset ==
    KernelPathTaken =>
        /\ \A k \in EventsWith(IsStore) :
            /\ trace[k].sp = Add32(StackBase, -64)
            /\ \E j \in 0..15 : trace[k].addr = Add32(StackBase, 4 * j - 64)
        /\ Returned => regs[X.sp] = StackBase

\* a from-kernel trap with sp exactly at _sstack has written to the stack
C4_Witness ==
    /\ KernelPathTaken
    /\ entry.regs[X.sp] = SStack
    /\ EventsWith(IsStore) # {}

\* C9: the return from a process trap resumes in machine mode at the address
\* held in word 2 of the kernel frame (_return_to_kernel), not at the
\* interrupted pc; mepc, the Scratch Flag and mstatus are written only once
\* the process state is completely saved, and all three before the mret.
C9_ResumeInKernel ==
    AppPathTaken =>
        /\ \A k \in EventsWith(IsCsrw) : trace[k].saved
        /\ Returned =>
            /\ mode = "kernel"
            /\ resume = ReturnToKernel
            /\ resume = Rd(mem, Add32(entry.csr.mscratch, 8))
            /\ resume # entry.csr.mepc
            /\ \A c \in {"mepc", "mscratch", "mstatus"} :
                \E k \in EventsWith(IsCsrw) : Program[trace[k].pc].csr = c

\* a process trap has returned
C9_Witness ==
    /\ Returned
    /\ AppPathTaken
    /\ entry.from = "process"
    /\ entry.csr.mepc = AppPc(running)

\* C10: on a process trap the disable-interrupt function is the only
\* function called; a call is made with a0 = mcause, only when the sign bit
\* of mcause is set and after the whole process state is saved; at the
\* return it has been called once for an interrupt, never otherwise.
C10_DisableInterrupt ==
    AppPathTaken =>
        /\ \A k \in EventsWith(IsCall) :
            /\ Program[trace[k].pc].fn = "_disable_interrupt_trap_rust_from_app"
            /\ Negative(entry.csr.mcause)
            /\ trace[k].a0 = entry.csr.mcause
            /\ trace[k].saved
        /\ Returned =>
            Cardinality(EventsWith(IsCall)) = IF Negative(entry.csr.mcause) THEN 1 ELSE 0

\* the disable function runs for a timer interrupt taken in a process
C10_Witness ==
    /\ mode = "call"
    /\ callee = "_disable_interrupt_trap_rust_from_app"
    /\ entry.csr.mcause = W(2^15, 7)
    /\ regs[X.a0] = W(2^15, 7)

\* a syscall has returned and no function was called
C10_WitnessSync ==
    /\ Returned /\ AppPathTaken
    /\ ~Negative(entry.csr.mcause)
    /\ EventsWith(IsCall) = {}

\* C11: a trap taken while the kernel runs with its stack pointer above
\* _sstack is transparent: the return resumes in machine mode at the
\* interrupted instruction (mepc untouched), and sp, ra, t0-t6, a0-a7 (and
\* every other register, the handler keeping the callee-saved ones) hold
\* their values of the instant of the trap.
C11_KernelTrapTransparent ==
    (Returned /\ KernelPathTaken /\ GtU(entry.regs[X.sp], SStack)) =>
        /\ mode = "kernel"
        /\ resume = entry.csr.mepc
        /\ csr.mepc = entry.csr.mepc
        /\ regs[X.sp] = entry.regs[X.sp]
        /\ \A k \in DOMAIN KernelSaved : regs[KernelSaved[k]] = entry.regs[KernelSaved[k]]
        /\ regs = entry.regs

\* a kernel trap taken in the middle of the stack has returned, after the
\* handler it called had changed every caller-saved register
C11_Witness ==
    /\ Returned
    /\ KernelPathTaken
    /\ entry.regs[X.sp] = Add32(EStack, -256)
    /\ EventsWith(IsCall) # {}
    /\ entry.regs[X.t0] # Clobbered(X.t0)

\* a store into the 16 words at and above sp, the kernel's stack frame
IsStackStore(e) == IsStore(e) /\ \E j \in 0..15 : e.addr = Add32(e.sp, 4 * j)

\* C12: on both trap paths, every store to the kernel stack frame and every
\* call that runs on the kernel stack is made with the Scratch Flag already
\* restored to 0.
C12_FlagClearBeforeStackUse ==
    \A k \in DOMAIN trace :
        (IsStackStore(trace[k]) \/ IsCall(trace[k])) => trace[k].flag = Zero32

\* the part of C12 that the code keeps: the from-kernel path
C12_FlagClearOnKernelPath ==
    KernelPathTaken =>
        \A k \in DOMAIN trace :
            (IsStackStore(trace[k]) \/ IsCall(trace[k])) => trace[k].flag = Zero32

\* C13: interrupts stay masked (mstatus.MIE = 0) from trap entry until the
\* dispatcher returns, so no trap is entered while the Scratch Flag holds a
\* transient value: at every trap entry the flag is 0 when kernel code was
\* running and the saved kernel stack pointer when a process was; and in
\* every interleaving of traps with kernel and process execution a trap
\* taken while the kernel runs takes the from-kernel path and a trap taken
\* while a process runs takes the from-process path.
C13_BoundedNesting ==
    /\ mode \in {"trap", "call"} => Bit(csr.mstatus, 3) = 0
    /\ mode = "kernel" => csr.mscratch = Zero32
    /\ mode = "process" => csr.mscratch \in KernelFrames
    /\ entry.from = "kernel" =>
           /\ entry.csr.mscratch = Zero32
           /\ Len(trace) >= 3 => KernelPathTaken
    /\ entry.from = "process" =>
           /\ entry.csr.mscratch \in KernelFrames
           /\ Len(trace) >= 3 => AppPathTaken

\* a process was dispatched, trapped with an interrupt and was left again;
\* the kernel then took a trap of its own, which went the from-kernel way
C13_Witness ==
    /\ ntraps = 2
    /\ running # 0
    /\ entry.from = "kernel"
    /\ KernelPathTaken
    /\ Returned

\* the from-kernel path found sp at or below _sstack and re-pointed it
StackResetTaken == KernelPathTaken /\ ~GtU(entry.regs[X.sp], SStack)

\* C14: once the from-kernel path has re-pointed the stack to _estack, the
\* dispatcher does not return from the trap: the interrupted kernel code is
\* never resumed with the re-pointed stack.
C14_OverflowFatal ==
    StackResetTaken => ~Returned

\* what the code does after the stack reset when the handler it calls comes
\* back: it resumes the interrupted instruction, with sp = _estack
C14_OverflowResumes ==
    (StackResetTaken /\ Returned) =>
        /\ mode = "kernel"
        /\ resume = entry.csr.mepc
        /\ regs[X.sp] = EStack

\* the executed instruction read the CSR c into a register
ReadsCsr(e, c) ==
    Program[e.pc].op \in {"csrr", "csrrw"} /\ Program[e.pc].csr = c
        /\ Program[e.pc].rd # X.zero

\* the interrupt test of the from-process path is the next instruction
AtInterruptTest == mode = "trap" /\ pc \in DOMAIN Program /\ Ins.op = "bge"

\* C15: on a trap from a process the Stored Process State gets mepc in slot
\* 31, mcause in slot 32 and mtval in slot 33, each as the CSR stood at trap
\* entry; mcause is the last CSR read, and it is the value in the working
\* register t0 when the interrupt test is made.
C15_TrapCsrsSaved ==
    AppPathTaken =>
        /\ (AtInterruptTest \/ Returned) =>
            LET r == StoredStateAddr(running) IN
            /\ Rd(mem, Add32(r, 31 * 4)) = entry.csr.mepc
            /\ Rd(mem, Add32(r, 32 * 4)) = entry.csr.mcause
            /\ Rd(mem, Add32(r, 33 * 4)) = entry.csr.mtval
        /\ AtInterruptTest =>
            /\ regs[X.t0] = entry.csr.mcause
            /\ \E k \in DOMAIN trace :
                /\ ReadsCsr(trace[k], "mcause")
                /\ \A j \in DOMAIN trace :
                       (\E c \in {"mscratch", "mepc", "mtval", "mstatus"} :
                            ReadsCsr(trace[j], c)) => j < k

\* process 2 has trapped with a fault (mcause 8, a nonzero mtval) and the
\* dispatcher has returned
C15_Witness ==
    /\ Returned /\ AppPathTaken
    /\ running = 2
    /\ entry.csr.mcause = W(0, 8)
    /\ entry.csr.mtval # Zero32
    /\ Cardinality({entry.csr.mepc, entry.csr.mcause, entry.csr.mtval}) = 3

\* the interrupt test is about to be made on the cause of an interrupt
C15_WitnessTest ==
    /\ AtInterruptTest
    /\ Negative(entry.csr.mcause)
    /\ regs[X.t0] = entry.csr.mcause

\* the mret of the dispatcher is the next instruction
AtMret == mode = "trap" /\ pc \in DOMAIN Program /\ Ins.op = "mret"

\* a status word with its MPP field (bits 11-12) taken out
WithoutMPP(ms) == W(ms.h, ms.l - 2048 * Field2(ms, 11))

\* C16: when the from-process path reaches its mret, mstatus.MPP (bits
\* 11-12) is 0b11 whatever it was at trap entry, and every other bit of
\* mstatus is as it was at trap entry; the mret therefore stays in machine
\* mode.
C16_MppMachine ==
    AppPathTaken =>
        /\ AtMret =>
            /\ Field2(csr.mstatus, 11) = 3
            /\ WithoutMPP(csr.mstatus) = WithoutMPP(entry.csr.mstatus)
        /\ Returned => mode = "kernel"

\* the from-process path is at its mret after a trap taken with MPP = 0b01
\* and a bit set outside of MPP
C16_Witness ==
    /\ AtMret /\ AppPathTaken
    /\ Field2(entry.csr.mstatus, 11) = 1
    /\ Bit(entry.csr.mstatus, 13) = 1
    /\ Field2(csr.mstatus, 11) = 3

\* the same after a trap taken with MPP = 0b00
C16_WitnessUser ==
    /\ AtMret /\ AppPathTaken
    /\ Field2(entry.csr.mstatus, 11) = 0
    /\ Field2(csr.mstatus, 11) = 3

\* ==========================================================================
\* Properties of the syscall router (checked under RouterSpec)
\* ==========================================================================
\* a command has been dispatched
Dispatched == dispatched.syscall.kind = "Command"

\* no arm of the Driver Registry carries the number dn
Unregistered32(dn) == \A name \in DOMAIN DRIVER_NUM : DRIVER_NUM[name] # dn

\* C5: a dispatch on a driver number that no service object is registered
\* for gives failure(NODEVICE) and invokes no command handler, whatever the
\* subdriver number, the arguments and the process identity are.
C5_UnregisteredNoDevice ==
    (Dispatched /\ Unregistered32(dispatched.syscall.driver_number))
        => (cres = failure("NODEVICE") /\ invoked = <<>>)

\* an unregistered number with bit 31 set has been dispatched for a real
\* process with nonzero arguments, and answered with NODEVICE
C5_Witness ==
    /\ Dispatched
    /\ dispatched.syscall = Command(W(2^15, 4), W(0, 2), W(0, 42),
                                    W(Half - 1, Half - 1))
    /\ dispatched.processid = "app"
    /\ cres = failure("NODEVICE")
    /\ invoked = <<>>

\* ==========================================================================
\* Properties of the deferred call scheduler (checked under DeferredSpec)
\* ==========================================================================
\* the sites whose pending bit is set in the word w
PendingSet(w) == {i \in 0..(Capacity - 1) : TestBit(w, i)}

\* the last operation was a service_next_pending
Serviced == lastService.op = "service"

\* the last operation was a service_next_pending that returned Some(i)
ServicedSite(i) == Serviced /\ lastService.ret = <<i>>

\* C6: service_next_pending on a nonzero bitmask services the lowest-indexed
\* pending site: it returns that index, has invoked the handler registered
\* for that index and no other, and has cleared that bit and no other (a bit
\* set afterwards is one the handler scheduled); on an empty bitmask it
\* returns nothing and invokes no handler.
C6_LowestIndexFirst ==
    Serviced =>
        LET S == PendingSet(lastService.before)
        IN  IF S = {}
            THEN /\ lastService.ret = <<>>
                 /\ lastService.invoked = <<>>
                 /\ bitmask = Zero32
            ELSE \E i \in S :
                     /\ \A j \in S : i <= j
                     /\ lastService.ret = <<i>>
                     /\ lastService.invoked =
                            <<[site |-> i, handler |-> handlers[i]]>>
                     /\ handlers[i] # NoHandler
                     /\ PendingSet(bitmask) =
                            (S \ {i}) \cup lastService.rescheduled

\* with sites 2, 5 and 9 pending, site 2 has just been serviced
C6_Witness ==
    /\ ServicedSite(2)
    /\ PendingSet(lastService.before) = {5, 2, 9}
    /\ PendingSet(bitmask) = {5, 9}

\* a service call has found the bitmask empty
C6_WitnessEmpty ==
    /\ Serviced
    /\ lastService.before = Zero32
    /\ lastService.ret = <<>>
    /\ lastService.invoked = <<>>
    /\ created = Capacity

\* C7: however many times set() was called on a site since its last service,
\* the bitmask is what one set() per such site gives (exactly the bits of
\* the sites scheduled and not yet serviced), and the handler of a site runs
\* once, not more, for all the set() calls that preceded its service.
C7_SetIdempotent ==
    /\ PendingSet(bitmask) = {i \in SchedSites : setsSince[i] >= 1}
    /\ \A i \in SchedSites :
           /\ runsSince[i] <= 1
           /\ setsSince[i] >= 1 => runsSince[i] = 0
    /\ \A i \in SchedSites :
           (ServicedSite(i) /\ i \notin lastService.rescheduled)
               => (runsSince[i] = 1 /\ ~TestBit(bitmask, i))

\* site 5 was scheduled twice and has then been serviced, once
C7_Witness ==
    /\ ServicedSite(5)
    /\ lastService.sets = MaxSets
    /\ lastService.rescheduled = {}
    /\ runsSince[5] = 1
    /\ ~TestBit(bitmask, 5)

\* C8: verify_setup succeeds exactly when no more sites were created than the
\* table holds and every created site has a handler; a site created beyond
\* the capacity is accepted by create() and makes verify_setup fail.
C8_VerifySetup ==
    /\ phase # "boot" =>
           (phase = "run" <=>
                /\ created <= Capacity
                /\ \A i \in 0..(created - 1) : handlers[i] # NoHandler)
    /\ created > Capacity => phase \in {"boot", "halted"}

\* 33 sites were created, all that fit are registered, verify_setup failed
C8_Witness ==
    /\ phase = "halted"
    /\ created = Capacity + 1
    /\ \A i \in 0..(Capacity - 1) : handlers[i] # NoHandler

\* verify_setup passed with the table full
C8_WitnessFull ==
    /\ phase = "run"
    /\ created = Capacity

\* verify_setup failed on a site that was created and never registered
C8_WitnessUnregistered ==
    /\ phase = "halted"
    /\ created <= Capacity
    /\ handlers[3] = NoHandler
    /\ handlers[4] # NoHandler

\* ==========================================================================
\* Further properties of the syscall router (checked under RouterSpec)
\* ==========================================================================
\* C17: a dispatch on a registered driver number invokes one command handler
\* and no more, that of the service object registered for the number, with
\* the subdriver number, arg0, arg1 and the process identity it was given
\* (every value is passed on as it is), and its result is the CommandReturn
\* of that handler.
C17_RegisteredDispatch ==
    (Dispatched /\ ~Unregistered32(dispatched.syscall.driver_number)) =>
        LET sc == dispatched.syscall IN
        \E name \in DOMAIN DRIVER_NUM :
            /\ DRIVER_NUM[name] = sc.driver_number
            /\ invoked = <<[driver |-> name,
                            subdriver_number |-> sc.subdriver_number,
                            arg0 |-> sc.arg0, arg1 |-> sc.arg1,
                            processid |-> dispatched.processid]>>
            /\ cres \in command(name, sc.subdriver_number, sc.arg0, sc.arg1,
                                dispatched.processid)
            /\ name = "life" =>
                   cres = LifeDriver_command(sc.subdriver_number, sc.arg0)

\* the life service was asked, for a real process, to check the value 42
\* and has answered success
C17_Witness ==
    /\ Dispatched
    /\ dispatched.syscall = Command(DRIVER_NUM.life, W(0, 1), W(0, 42), Zero32)
    /\ dispatched.processid = "app"
    /\ Len(invoked) = 1
    /\ invoked[1].driver = "life"
    /\ cres = success

\* the led service was called with an all-ones arg1 and has answered 7
C17_WitnessLed ==
    /\ Dispatched
    /\ dispatched.syscall.driver_number = DRIVER_NUM.led
    /\ dispatched.syscall.arg1 = W(Half - 1, Half - 1)
    /\ Len(invoked) = 1
    /\ invoked[1].driver = "led"
    /\ cres = success_u32(W(0, 7))

\* a step in which a command is dispatched, by a direct call of
\* handle_external_syscall or by service_next_pending
DispatchStep ==
    \/ \E processid \in ProcessIds, syscall \in SyscallInputs :
           syscall.kind = "Command" /\ dispatch(processid, syscall)
    \/ rx_buffer # <<>> /\ dispatch(SelfProcessId, UnpackFrame(rx_buffer))

LookupInputs == DriverInputs \cup {DRIVER_NUM[name] : name \in DOMAIN DRIVER_NUM}

\* C20: the lookup has no side effect: after any sequence of dispatches, on
\* registered and on unregistered numbers, the Platform holds the service
\* objects it was built with and with_driver gives, for every driver number,
\* the object (or None) it gave at boot.
C20_LookupPure ==
    /\ platform = PlatformAtBoot
    /\ \A dn \in LookupInputs :
           /\ Unregistered32(dn) => with_driver(dn) = NoDriver
           /\ \A name \in DOMAIN DRIVER_NUM :
                  DRIVER_NUM[name] = dn => with_driver(dn) = PlatformAtBoot[name]

\* a request of the other board was received and serviced, the gpio service
\* was looked up and called for it, and the lookup of gpio, of life and of
\* an unregistered number still answers as at boot
C20_Witness ==
    /\ Dispatched
    /\ dispatched.processid = SelfProcessId
    /\ Len(invoked) = 1
    /\ invoked[1].driver = "gpio"
    /\ with_driver(DRIVER_NUM.gpio) = "gpio"
    /\ with_driver(DRIVER_NUM.life) = "life"
    /\ with_driver(W(9, 5)) = NoDriver

\* ==========================================================================
\* Further properties of the deferred call scheduler (under DeferredSpec)
\* ==========================================================================
\* C21: a pending bit is cleared by nothing but the service_next_pending
\* call that runs the handler of its site (once pending, the handler always
\* runs), be it a single call or one of the calls of the drain loop; a site
\* that the running handler schedules, its own included, has its bit set
\* when service_next_pending returns and is left for a later call: the call
\* has run one handler only.
C21_NoCancellation ==
    [][/\ \A i \in 0..(Capacity - 1) :
              (TestBit(bitmask, i) /\ ~TestBit(bitmask', i)) =>
                  \/ /\ lastService'.op = "service"
                     /\ lastService'.ret = <<i>>
                     /\ lastService'.invoked =
                            <<[site |-> i, handler |-> handlers[i]]>>
                  \/ /\ lastService'.op = "drain"
                     /\ \E k \in DOMAIN lastService'.order :
                            lastService'.order[k] = i
       /\ (lastService'.op = "service" /\ lastService'.ret # <<>>) =>
              /\ \A j \in lastService'.rescheduled : TestBit(bitmask', j)
              /\ Len(lastService'.invoked) = 1
              /\ TestBit(bitmask, lastService'.ret[1])]_vars

\* the handler of site 2 has scheduled its own site again while it ran:
\* the bit is set on return, for a later call
C21_Witness ==
    /\ ServicedSite(2)
    /\ lastService.rescheduled = {2}
    /\ TestBit(bitmask, 2)
    /\ Len(lastService.invoked) = 1

\* the handler of site 2 has scheduled site 9, which was not pending
C21_WitnessOther ==
    /\ ServicedSite(2)
    /\ lastService.rescheduled = {9}
    /\ ~TestBit(lastService.before, 9)
    /\ TestBit(bitmask, 9)

\* C22: a call of service_next_pending services at most one site: with a
\* nonzero bitmask it invokes one handler, and the pending bit of every
\* other site is after the call what it was before (or set by that
\* handler); with a zero bitmask it invokes none and changes no bit.
C22_OneSitePerCall ==
    [][lastService'.op = "service" =>
           IF bitmask = Zero32
           THEN lastService'.invoked = <<>> /\ bitmask' = bitmask
           ELSE /\ Len(lastService'.invoked) = 1
                /\ Len(lastService'.ret) = 1
                /\ \A j \in 0..(Capacity - 1) :
                       j # lastService'.ret[1] =>
                           (TestBit(bitmask', j) <=>
                                (TestBit(bitmask, j)
                                     \/ j \in lastService'.rescheduled))]_vars

\* site 5 was serviced while 9 and 31 were pending too: both still are
C22_Witness ==
    /\ ServicedSite(5)
    /\ PendingSet(lastService.before) = {5, 9, 31}
    /\ lastService.rescheduled = {}
    /\ PendingSet(bitmask) = {9, 31}

\* C23: has_tasks() is true exactly when the pending bit of some site is
\* set, that is when some site was set() and has not been serviced since.
C23_HasTasks ==
    /\ has_tasks <=> PendingSet(bitmask) # {}
    /\ has_tasks <=> \E i \in SchedSites : setsSince[i] >= 1

\* only site 31, in the upper half of the bitmask, is pending
C23_Witness ==
    /\ has_tasks
    /\ PendingSet(bitmask) = {31}
    /\ setsSince[31] >= 1

\* everything that was scheduled has been serviced
C23_WitnessDrained ==
    /\ ~has_tasks
    /\ Serviced
    /\ lastService.ret # <<>>

\* the last operation was register(h) on site i
RegisteredSite(i, h) ==
    lastService.op = "register" /\ lastService.site = i /\ lastService.handler = h

\* C24: a site has one handler, the one of the last register call on it:
\* register(h) on a site makes h the table entry of that site, whatever the
\* entry was, and leaves the entries of all other sites as they are; no
\* other operation changes the table; and the handler invoked when a site is
\* serviced is its table entry.
C24_LastRegisterWins ==
    [][/\ lastService'.op = "register" =>
              LET i == lastService'.site
                  h == lastService'.handler
              IN  /\ i < Capacity => handlers'[i] = h
                  /\ \A j \in 0..(Capacity - 1) :
                         j # i => handlers'[j] = handlers[j]
       /\ lastService'.op # "register" => handlers' = handlers
       /\ (lastService'.op = "service" /\ lastService'.ret # <<>>) =>
              lastService'.invoked =
                  <<[site |-> lastService'.ret[1],
                     handler |-> handlers[lastService'.ret[1]]]>>]_vars

\* site 2, which had the handler "a", has been registered for "b"
C24_Witness ==
    /\ RegisteredSite(2, "b")
    /\ lastService.prev = "a"
    /\ handlers[2] = "b"
    /\ handlers[5] = "a"

\* site 2 has been serviced after that: "b" ran
C24_WitnessServiced ==
    /\ ServicedSite(2)
    /\ handlers[2] = "b"
    /\ lastService.invoked = <<[site |-> 2, handler |-> "b"]>>

\* the last operation was a run of the drain loop
Drained == lastService.op = "drain"

\* C29: from any pending set S, with handlers that schedule nothing, calling
\* service_next_pending while has_tasks() is true services every site of S
\* once and no other site, in strictly increasing index order, and has_tasks()
\* is false after |S| calls.
C29_DrainInOrder ==
    Drained =>
        LET S     == PendingSet(lastService.before)
            order == lastService.order
        IN  /\ Len(order) = Cardinality(S)
            /\ {order[k] : k \in DOMAIN order} = S
            /\ \A k \in DOMAIN order : \A m \in DOMAIN order :
                   k < m => order[k] < order[m]
            /\ ~has_tasks

\* four sites were pending, site 31 among them, and the loop made four calls
C29_Witness ==
    /\ Drained
    /\ PendingSet(lastService.before) = {2, 5, 9, 31}
    /\ lastService.order = <<2, 5, 9, 31>>
    /\ bitmask = Zero32

\* nothing was pending: the loop made no call
C29_WitnessEmpty ==
    /\ Drained
    /\ lastService.before = Zero32
    /\ lastService.order = <<>>

\* ==========================================================================
\* Properties of the stateless entry points (checked under EntrySpec)
\* ==========================================================================
\* the last step was a call of configure_trap_handler for the level m
Configured(m) == call.fn = "configure_trap_handler" /\ call.mode = m

\* the register value that names the address a in direct mode: bits 2..31
\* are a >> 2, bits 0..1 are zero
DirectVector(a) == W(a.h, a.l - (a.l % 4))

\* C25: configure_trap_handler writes the address of _start_trap, shifted
\* right by 2 into the address field and with the mode field 0 (direct),
\* into mtvec for Machine, stvec for Supervisor and utvec for User, leaves
\* the two other vector registers as they are, and writes no register for
\* Reserved.
C25_TrapVector ==
    [][call'.fn = "configure_trap_handler" =>
           LET v == DirectVector(call'.addr)
               m == call'.mode
           IN  /\ m = "Machine" => tvec' = [tvec EXCEPT !.mtvec = v]
               /\ m = "Supervisor" => tvec' = [tvec EXCEPT !.stvec = v]
               /\ m = "User" => tvec' = [tvec EXCEPT !.utvec = v]
               /\ m = "Reserved" => tvec' = tvec
               /\ \A r \in DOMAIN tvec' :
                      tvec'[r] # tvec[r] =>
                          (Shr2(tvec'[r]) = Shr2(call'.addr)
                               /\ tvec'[r].l % 4 = 0)]_vars

\* the supervisor vector was configured: stvec holds the address, mtvec and
\* utvec still hold their reset values
C25_Witness ==
    /\ Configured("Supervisor")
    /\ tvec.stvec = W(2^15 + 1, 256)
    /\ tvec.mtvec = ResetVectors.mtvec
    /\ tvec.utvec = ResetVectors.utvec

\* Reserved was asked for after Machine: nothing was written
C25_WitnessReserved ==
    /\ Configured("Reserved")
    /\ tvec = [ResetVectors EXCEPT !.mtvec = W(2^15 + 1, 512)]

\* the last step was a call of the command handler fn with command number n
Called(fn, n) == call.fn = fn /\ call.command_num = n

\* C26: LifeDriver::command depends on command_num and data only: command 0
\* gives success with the value 42 whatever data is, command 1 gives success
\* when data is 42 and failure(INVAL) when it is not, every other command
\* number gives failure(NOSUPPORT), for every arg1 and process identity.
C26_LifeCommand ==
    call.fn = "LifeDriver::command" =>
        /\ call.command_num = W(0, 0) => call.ret = success_u32(W(0, 42))
        /\ call.command_num = W(0, 1) =>
               call.ret = IF call.data = W(0, 42) THEN success
                          ELSE failure("INVAL")
        /\ call.command_num \notin {W(0, 0), W(0, 1)} =>
               call.ret = failure("NOSUPPORT")

\* command 1 was called with a word whose lower half is 42 and whose upper
\* half is not 0, a nonzero arg1 and a real process: INVAL
C26_Witness ==
    /\ Called("LifeDriver::command", W(0, 1))
    /\ call.data = W(1, 42)
    /\ call.arg1 = W(0, 42)
    /\ call.processid = "app"
    /\ call.ret = failure("INVAL")

\* command 0 was called with the data 20
C26_WitnessGet ==
    /\ Called("LifeDriver::command", W(0, 0))
    /\ call.data = W(0, 20)
    /\ call.ret = success_u32(LIFE)

\* C27: MaryDriver command 0 returns the data it was given: for every data,
\* the result is success carrying data.
C27_MaryReturnsData ==
    Called("MaryDriver::command", W(0, 0)) => call.ret = success_u32(call.data)

\* what the code does for command 0: success carrying 20, whatever data is
C27_MaryReturnsAge ==
    Called("MaryDriver::command", W(0, 0)) => call.ret = success_u32(W(0, 20))

\* C28: MaryDriver command 1 returns success and makes no use of data: for
\* every data the result is success.
C28_MarySuccess ==
    Called("MaryDriver::command", W(0, 1)) => call.ret = success

\* what the code does for command 1: success for the data 20, INVAL else
C28_MaryChecksAge ==
    Called("MaryDriver::command", W(0, 1)) =>
        call.ret = IF call.data = W(0, 20) THEN success ELSE failure("INVAL")

\* the driver number with bit 31 cleared
Bit31Cleared(w) == W(w.h % 2^15, w.l)

\* the four bytes of b from position i are the big-endian bytes of w
BigEndianAt(b, i, w) ==
    /\ \A k \in i..(i + 3) : b[k] \in 0..255
    /\ b[i] * 256 + b[i + 1] = w.h
    /\ b[i + 2] * 256 + b[i + 3] = w.l

\* C30: unpack_bytes applied to the 17 bytes of pack_syscall_and_send gives
\* back the subdriver number, arg0 and arg1 of the Command syscall and its
\* driver number with bit 31 cleared; the frame is the byte 1 followed by the
\* driver number (bit 31 cleared), the subdriver number, arg0 and arg1 as
\* four big-endian fields of 4 bytes.
C30_FrameRoundTrip ==
    call.fn = "unpack_bytes" =>
        /\ call.ret.kind = "Command"
        /\ call.ret.subdriver_number = call.syscall.subdriver_number
        /\ call.ret.arg0 = call.syscall.arg0
        /\ call.ret.arg1 = call.syscall.arg1
        /\ call.ret.driver_number = Bit31Cleared(call.syscall.driver_number)
        /\ Len(call.buffer) = 17
        /\ call.buffer[1] = 1
        /\ BigEndianAt(call.buffer, 2, Bit31Cleared(call.syscall.driver_number))
        /\ BigEndianAt(call.buffer, 6, call.syscall.subdriver_number)
        /\ BigEndianAt(call.buffer, 10, call.syscall.arg0)
        /\ BigEndianAt(call.buffer, 14, call.syscall.arg1)

\* a syscall for an external driver (bit 31 set), with four different bytes
\* in arg0 and all bits set in arg1, went through the round trip
C30_Witness ==
    /\ call.fn = "unpack_bytes"
    /\ call.syscall.driver_number = W(2^15 + 1, 2)
    /\ call.syscall.arg0 = W(4660, 22136)
    /\ call.syscall.arg1 = W(Half - 1, Half - 1)
    /\ call.ret.driver_number = W(1, 2)
    /\ call.buffer[10] = 18 /\ call.buffer[13] = 120

\* a driver number without bit 31 came back unchanged
C30_WitnessPlain ==
    /\ call.fn = "unpack_bytes"
    /\ call.syscall.driver_number = W(0, 42)
    /\ call.syscall.arg0 = Zero32
    /\ call.ret = call.syscall

\* ==========================================================================
\* Properties of the ExternalCall's receive and transmit sides (RouterSpec)
\* ==========================================================================
\* C31: whenever JOB_PENDING is true the receive buffer is held by the
\* ExternalCall (it is neither lent to the UART nor consumed), so the unwrap
\* of unpack_bytes in service_next_pending never panics.
C31_PendingHoldsBuffer ==
    /\ JOB_PENDING => rx_buffer # <<>>
    /\ ~panicked

\* a request frame has been serviced and the transmission of its response
\* has completed: the response is back in tx_buffer
ResponseCompleted ==
    /\ ~panicked
    /\ dispatched.processid = SelfProcessId
    /\ uart_tx = <<>>
    /\ tx_buffer # <<>>
    /\ tx_buffer[1] = 2

\* a reception is outstanding: the UART holds the receive buffer
ReceptionOutstanding == uart_rx # <<>>

\* C32: once service_next_pending has handled a request frame and the
\* transmission of the response has completed, a UART reception is
\* eventually outstanding again.
C32_ReceptionRearmed == ResponseCompleted ~> ReceptionOutstanding

\* what the code does: a receive buffer that is neither in rx_buffer nor
\* with the UART never comes back
C32_BufferLostForever ==
    [][(rx_buffer = <<>> /\ uart_rx = <<>>)
           => (rx_buffer' = <<>> /\ uart_rx' = <<>>)]_vars

\* C33: start_transmission leaves the transmit buffer usable when it fails:
\* with a transmission outstanding it returns BUSY and the UART is not
\* touched, and a buffer the UART rejects is put back into tx_buffer; the
\* buffer is in tx_buffer or with the UART at all times, so that a later
\* start_transmission can succeed.
C33_TxBufferUsable == tx_buffer # <<>> \/ uart_tx # <<>>

\* what the code does keep: with tx_buffer empty a start_transmission changes
\* nothing, and only transmitted_buffer fills tx_buffer again
C33_BusyLeavesUart ==
    [][tx_buffer = <<>> =>
           \/ tx_buffer' = <<>> /\ uart_tx' = uart_tx
           \/ tx_buffer' = uart_tx /\ uart_tx # <<>> /\ uart_tx' = <<>>]_vars

\* a step of received_buffer that changes the receive side: the UART held
\* the buffer, and rx_buffer or the UART's buffer is not what it was
ReceivedStep ==
    /\ uart_rx # <<>>
    /\ rx_buffer' # rx_buffer \/ uart_rx' # uart_rx

\* a step that starts a reception
ReceptionStarts == uart_rx = <<>> /\ uart_rx' # <<>>

C35_WitnessResponse ==
    /\ ~JOB_PENDING
    /\ rx_buffer = <<>>
    /\ uart_rx # <<>>
    /\ uart_rx[1] = 2

\* a step of service_next_pending that unpacks the frame in rx_buffer and
\* dispatches it (no other step clears JOB_PENDING)
ServiceStep ==
    /\ JOB_PENDING /\ ~JOB_PENDING'
    /\ rx_buffer # <<>>

\* C36: every external syscall that is serviced hands one response frame
\* (first byte 2) to the UART, whatever the node's own transmissions
\* (pack_syscall_and_send) and their completions have done before: on a UART
\* that accepts the buffers it is given, no response is dropped because the
\* transmit buffer is in use.
C36_ResponsePerRequest ==
    [][(ServiceStep /\ ~UartRefuses) =>
           /\ tx_buffer # <<>>
           /\ tx_buffer' = <<>>
           /\ uart_tx' # <<>>
           /\ uart_tx'[1] = 2]_vars

\* what the code does: the response reaches the UART when tx_buffer holds
\* the transmit buffer, and is dropped when it does not
C36_ResponseUnlessBusy ==
    [][(ServiceStep /\ ~UartRefuses) =>
           IF tx_buffer # <<>>
           THEN tx_buffer' = <<>> /\ uart_tx' # <<>> /\ uart_tx'[1] = 2
           ELSE tx_buffer' = <<>> /\ uart_tx' = uart_tx]_vars

\* ==========================================================================
\* Properties of the first draft of the servicer (RedirectSpec)
\* ==========================================================================
\* the last operation of the draft was service_pending
ServicedPending == redirected.op = "service_pending"

\* C34: in the draft, as in ExternalCall::service_next_pending, servicing
\* with no external call pending dispatches no syscall to the router; a
\* syscall is dispatched only for a call that was pending, and the pending
\* flag is false afterwards.
C34_IdleDispatchesNothing ==
    ServicedPending =>
        /\ ~redirected.job => redirected.dispatched = <<>>
        /\ redirected.dispatched # <<>> => redirected.job
        /\ ~WAITING_SYS

\* what the draft does keep: the flag is false after every service_pending,
\* and each call dispatches the one made-up syscall
C34_FlagCleared ==
    ServicedPending =>
        /\ ~WAITING_SYS
        /\ Len(redirected.dispatched) = 1
        /\ redirected.dispatched[1].syscall = DummySyscall

\* ==========================================================================
\* Properties of the registry of external drivers (RegistrySpec)
\* ==========================================================================
\* the last operation was the first one on a registry as new() built it, and
\* it was add_driver
AddedToNew == regop.op = "add_driver" /\ regop.fresh

\* C37: on a newly created registry, after add_driver(n, d) the lookup
\* get_driver(n) gives d and find_driver(n) gives n.
C37_LookupAfterAdd ==
    AddedToNew =>
        /\ get_driver(regop.num) = regop.driver
        /\ find_driver(regop.num) = regop.num

\* what the code does: add_driver on a new registry stores nothing, the
\* lookups give None and 0
C37_AddToNewIgnored ==
    AddedToNew =>
        /\ Fresh
        /\ regop.touched = -1
        /\ get_driver(regop.num) = NoDriver
        /\ find_driver(regop.num) = Zero32

\* C38: after any sequence of add_driver and remove_driver calls count is
\* between 0 and MAXDRIVERS (it does not go below 0), and every index of the
\* array that add_driver, get_driver, find_driver or remove_driver reads or
\* writes is below MAXDRIVERS.
C38_RegistryBounds ==
    /\ count \in 0..MAXDRIVERS
    /\ regop.op # "none" => regop.touched < MAXDRIVERS
    /\ \A n \in LookupNums : LastVisited(n) < MAXDRIVERS

\* add_driver has stored a driver in the last slot it may use, after count
\* had come down from MAXDRIVERS
C38_Witness ==
    /\ regop.op = "add_driver"
    /\ regop.touched = AddLimit - 1
    /\ count = AddLimit
    /\ get_driver(regop.num) = regop.driver

\* remove_driver has brought count down to 0
C38_WitnessZero ==
    /\ regop.op = "remove_driver"
    /\ regop.touched = 0
    /\ count = 0

\* ---- the kernel stack frame during a trap from a process ------------------
\* the kernel stack frame the dispatcher was handed: the Scratch Flag at the
\* instant of the trap
HandedFrame == entry.csr.mscratch

\* the addresses of the 34 words of the Stored Process State record r
RecordWords(r) == {Add32(r, 4 * k) : k \in 0..33}

\* the addresses the dispatcher has stored to since the trap
StoredTo == {trace[k].addr : k \in EventsWith(IsStore)}

\* C39: on a trap from a process the dispatcher writes only word 0 of the
\* kernel stack frame it was handed; words 1 (the Stored Process State
\* pointer) and 2 (the resumption address) keep what the kernel put there
\* before the process was dispatched, and every other store of the
\* dispatcher goes to a word of the record that word 1 names.
C39_FrameReadOnly ==
    (entry.from = "process" /\ AppPathTaken) =>
        /\ Rd(mem, Add32(HandedFrame, 4)) = StoredStateAddr(running)
        /\ Rd(mem, Add32(HandedFrame, 8)) = ReturnToKernel
        /\ StoredTo \subseteq
               {HandedFrame} \cup RecordWords(Rd(mem, Add32(HandedFrame, 4)))
        /\ \A a \in StoredTo :
               a # Add32(HandedFrame, 4) /\ a # Add32(HandedFrame, 8)

\* a trap from a process has returned after the dispatcher parked s0 in word
\* 0 of the frame, filled the record and called the interrupt handler
C39_Witness ==
    /\ Returned /\ entry.from = "process" /\ AppPathTaken
    /\ HandedFrame \in StoredTo
    /\ Cardinality(StoredTo) = 35
    /\ EventsWith(IsCall) # {}

\* the same for an exception, where no handler is called
C39_WitnessException ==
    /\ Returned /\ entry.from = "process" /\ AppPathTaken
    /\ Cardinality(StoredTo) = 35
    /\ EventsWith(IsCall) = {}
====
